---- MODULE Spec2Model ----
(***************************************************************************)
(* Model of the authentication core of the AI trading platform backend:    *)
(* sessions and rotating refresh tokens (core/auth_enhanced.py,            *)
(* core/auth_service.py, core/database.py), the request dependencies that  *)
(* use them (api/auth_secure.py, api/auth_v2.py) and the signed bearer     *)
(* tokens (JWTService).                                                    *)
(*                                                                         *)
(* The relational store is modelled as two tables, sessions and tokens,    *)
(* holding the committed rows.  A request handler is a function from the   *)
(* committed tables to a result that carries the tables it leaves          *)
(* committed: every db.commit() inside the handler and the commit or       *)
(* rollback of the request scoped session (get_db) are part of it.         *)
(***************************************************************************)
EXTENDS Integers, Sequences, FiniteSets, TLC

VARIABLES
    impl,       \* which service the deployment mounts: "enhanced" or "v2"
    now,        \* datetime.utcnow() of the session and refresh code, in days
    sessions,   \* table user_sessions (committed rows), in insertion order
    tokens,     \* table refresh_tokens (committed rows), in insertion order
    last,       \* outcome of the last request, as its caller sees it
    rotations,  \* history: <<redeemed raw token, successor raw token>>
    pc,         \* position of each concurrent refresh request (SpecConc)
    tz,         \* UTC offset of the server's local time zone, in minutes
    clock,      \* the true UTC time of the bearer token code, in minutes
    jwt,        \* the bearer token last minted, with the call that minted it
    verdict,    \* outcome of the last verify_token call
    manager,    \* RateLimitManager: use_redis, redis_limiter._connected, the limit
    memory_limiter, \* MemoryRateLimiter: requests and token_buckets
    redis,      \* the Redis server: reachable or not, and its keys
    rltime,     \* time.time() of the rate limiter, in seconds
    rlresult,   \* the RateLimitResult (or failure) of the last check
    rlhist,     \* history: per key, the checks made and what they returned
    rlpc,       \* position of each concurrent Redis check (SpecRLConc)
    accounts,   \* table users: password_hash, failed_login_attempts, locked_until
    login,      \* outcome of the last authenticate_user call, as its caller sees it
    streak,     \* history: per email, the wrong-password attempts in a row
    stored,     \* the password hashes written to users.password_hash so far
    pwcheck,    \* the last verify_password call and how it ended
    keyfiles,   \* keys/jwt_private.pem and keys/jwt_public.pem: absent or a key
    kpc         \* each CryptoService being constructed: its position and keys

authVars == <<impl, now, sessions, tokens, last, rotations>>
concVars == <<pc>>
jwtVars == <<tz, clock, jwt, verdict>>
rlVars == <<manager, memory_limiter, redis, rltime, rlresult, rlhist, rlpc>>
acctVars == <<accounts, login, streak>>
pwVars == <<stored, pwcheck>>
keyVars == <<keyfiles, kpc>>
otherVars == <<rlVars, acctVars, pwVars, keyVars>>
vars == <<authVars, concVars, jwtVars, otherVars>>

----------------------------------------------------------------------------
(* Bounds of the model *)

MaxSessions == 2
MaxTokens == 3
MaxTime == 60
MaxCapSessions == 7
MaxClock == 30
MaxRlTime == 3
MaxChecks == 4
MaxLoginTicks == 2
MaxStampTime == 8
MaxRevokeSessions == 3
MaxLockoutTicks == 4
MaxFrameSessions == 3

(* Program constants *)

SESSION_EXPIRE_DAYS == 7
REFRESH_TOKEN_EXPIRE_DAYS == 30
MAX_SESSIONS_PER_USER == 5
SESSION_DEFAULT_DAYS == 30
REFRESH_DEFAULT_DAYS == 60
ACCESS_TOKEN_EXPIRE_MINUTES == 15
EMAIL_VERIFICATION_EXPIRE_HOURS == 24
PASSWORD_RESET_EXPIRE_HOURS == 1
MFA_TOKEN_EXPIRE_MINUTES == 5
LOGIN_ATTEMPTS_LIMIT == 5
LOCKOUT_DURATION_MINUTES == 15
MAX_FAILED_ATTEMPTS == 5
AUTH_LOCKOUT_DURATION_MINUTES == 15

Users == {1, 2}
Impls == {"enhanced", "v2"}
Procs == {1, 2}
(* The clock of the session code advances in steps of 30 days *)
TickDays == {REFRESH_TOKEN_EXPIRE_DAYS}

----------------------------------------------------------------------------
(* Optional[...] columns: None is the empty tuple, a value v is <<v>> *)

None == <<>>
Some(v) == <<v>>

(* CryptoService.hash_token: the SHA-256 digest of the raw token.  Distinct *)
(* raw tokens have distinct digests; a digest is never a raw token.         *)
hash_token(token) == <<"sha256", token>>

(* CryptoService.generate_secure_token: a value never generated before.    *)
(* Raw refresh tokens are numbered in the order they are generated.         *)
generate_secure_token(db) == Len(db.t) + 1

(* The tables a handler works on *)
Db(s, t) == [s |-> s, t |-> t]

----------------------------------------------------------------------------
(* Rows *)

UserSession(db, user_id, expires_at, t) ==
    [ session_id    |-> Len(db.s) + 1,
      user_id       |-> user_id,
      is_active     |-> TRUE,
      created_at    |-> t,
      last_activity |-> t,
      expires_at    |-> expires_at,
      revoked_at    |-> None ]

RefreshToken(db, user_id, session_id, raw, expires_at, t) ==
    [ id          |-> Len(db.t) + 1,
      user_id     |-> user_id,
      session_id  |-> session_id,
      token_hash  |-> hash_token(raw),
      jti         |-> Len(db.t) + 1,
      is_active   |-> TRUE,
      created_at  |-> t,
      expires_at  |-> expires_at,
      used_at     |-> None,
      replaced_by |-> None,
      revoked_at  |-> None ]

----------------------------------------------------------------------------
(* SessionService (both implementations) *)

(* UPDATE user_sessions SET is_active = false, revoked_at = now WHERE session_id = sid *)
RevokeSessionRow(db, sid, t) ==
    [i \in DOMAIN db.s |->
        IF db.s[i].session_id = sid
        THEN [db.s[i] EXCEPT !.is_active = FALSE, !.revoked_at = Some(t)]
        ELSE db.s[i]]

(* UPDATE refresh_tokens SET is_active = false, revoked_at = now WHERE session_id = sid *)
RevokeTokensOf(db, sid, t) ==
    [i \in DOMAIN db.t |->
        IF db.t[i].session_id = sid
        THEN [db.t[i] EXCEPT !.is_active = FALSE, !.revoked_at = Some(t)]
        ELSE db.t[i]]

(* A revoke_session without the cascade to the refresh tokens, which      *)
(* C7_RevocationCascade tells apart from revoke_session                    *)
revoke_session_row_only(db, sid, t) ==
    Db(RevokeSessionRow(db, sid, t), db.t)

revoke_session(db, sid, t) ==
    Db(RevokeSessionRow(db, sid, t), RevokeTokensOf(db, sid, t))

(* A lookup that still returns a session at the instant of its expiry,     *)
(* which C8_ActiveSessionIff tells apart from get_active_session           *)
get_active_session_inclusive(db, sid, t) ==
    LET hit == {i \in DOMAIN db.s :
                    /\ db.s[i].session_id = sid
                    /\ db.s[i].is_active
                    /\ db.s[i].expires_at >= t
                    /\ db.s[i].revoked_at = None}
    IN IF hit = {} THEN None ELSE Some(db.s[CHOOSE i \in hit : TRUE])

(* SELECT ... WHERE session_id = sid AND is_active AND expires_at > now     *)
(* AND revoked_at IS NULL; the row, or None                                 *)
get_active_session(db, sid, t) ==
    LET hit == {i \in DOMAIN db.s :
                    /\ db.s[i].session_id = sid
                    /\ db.s[i].is_active
                    /\ db.s[i].expires_at > t
                    /\ db.s[i].revoked_at = None}
    IN IF hit = {} THEN None ELSE Some(db.s[CHOOSE i \in hit : TRUE])

(* An activity stamp with sliding expiry, which C9_SessionMonotone tells    *)
(* apart from update_session_activity                                      *)
update_session_activity_sliding(db, sid, t) ==
    Db([i \in DOMAIN db.s |->
            IF db.s[i].session_id = sid
            THEN [db.s[i] EXCEPT !.last_activity = t,
                                 !.expires_at = t + REFRESH_TOKEN_EXPIRE_DAYS]
            ELSE db.s[i]],
       db.t)

(* UPDATE user_sessions SET last_activity = now WHERE session_id = sid *)
update_session_activity(db, sid, t) ==
    Db([i \in DOMAIN db.s |->
            IF db.s[i].session_id = sid
            THEN [db.s[i] EXCEPT !.last_activity = t]
            ELSE db.s[i]],
       db.t)

(* A SELECT without the condition on user_id, which C40_OtherUsersUntouched *)
(* tells apart from SessionsNewestFirst                                     *)
RECURSIVE SessionsNewestFirst_all_users(_, _, _)
SessionsNewestFirst_all_users(db, uid, i) ==
    IF i = 0 THEN <<>>
    ELSE <<db.s[i]>> \o SessionsNewestFirst_all_users(db, uid, i - 1)

(* SELECT ... WHERE user_id = uid ORDER BY created_at DESC.  Rows are       *)
(* inserted with created_at = now and now never decreases, so the newest    *)
(* row is the last inserted one.                                            *)
RECURSIVE SessionsNewestFirst(_, _, _)
SessionsNewestFirst(db, uid, i) ==
    IF i = 0 THEN <<>>
    ELSE IF db.s[i].user_id = uid
         THEN <<db.s[i]>> \o SessionsNewestFirst(db, uid, i - 1)
         ELSE SessionsNewestFirst(db, uid, i - 1)

(* A loop that keeps the sessions it meets last, the oldest, which          *)
(* C31_EvictionOrder tells apart from CleanupLoop                          *)
RECURSIVE CleanupLoop_oldest(_, _, _, _)
CleanupLoop_oldest(ss, t, sessions_to_keep, sessions_to_remove) ==
    IF ss = <<>> THEN sessions_to_remove
    ELSE LET session == ss[Len(ss)] IN
         IF session.expires_at < t \/ ~session.is_active
         THEN CleanupLoop_oldest(SubSeq(ss, 1, Len(ss) - 1), t, sessions_to_keep,
                                 Append(sessions_to_remove, session))
         ELSE IF Len(sessions_to_keep) < MAX_SESSIONS_PER_USER
         THEN CleanupLoop_oldest(SubSeq(ss, 1, Len(ss) - 1), t,
                                 Append(sessions_to_keep, session), sessions_to_remove)
         ELSE CleanupLoop_oldest(SubSeq(ss, 1, Len(ss) - 1), t, sessions_to_keep,
                                 Append(sessions_to_remove, session))

(* The loop of _cleanup_old_sessions: the sessions to remove *)
RECURSIVE CleanupLoop(_, _, _, _)
CleanupLoop(ss, t, sessions_to_keep, sessions_to_remove) ==
    IF ss = <<>> THEN sessions_to_remove
    ELSE LET session == Head(ss) IN
         IF session.expires_at < t \/ ~session.is_active
         THEN CleanupLoop(Tail(ss), t, sessions_to_keep,
                          Append(sessions_to_remove, session))
         ELSE IF Len(sessions_to_keep) < MAX_SESSIONS_PER_USER
         THEN CleanupLoop(Tail(ss), t, Append(sessions_to_keep, session),
                          sessions_to_remove)
         ELSE CleanupLoop(Tail(ss), t, sessions_to_keep,
                          Append(sessions_to_remove, session))

RECURSIVE RevokeEach(_, _, _)
RevokeEach(db, ss, t) ==
    IF ss = <<>> THEN db
    ELSE RevokeEach(revoke_session(db, Head(ss).session_id, t), Tail(ss), t)

cleanup_old_sessions(db, uid, t) ==
    RevokeEach(db,
               CleanupLoop(SessionsNewestFirst(db, uid, Len(db.s)), t, <<>>, <<>>),
               t)

(* auth_enhanced.SessionService.create_session: cleanup, then the new row *)
create_session(db, uid, remember_me, t) ==
    LET d == cleanup_old_sessions(db, uid, t)
        expires_at == IF remember_me THEN t + REFRESH_TOKEN_EXPIRE_DAYS
                                     ELSE t + SESSION_EXPIRE_DAYS
    IN Db(Append(d.s, UserSession(d, uid, expires_at, t)), d.t)

(* A revoke_all_user_sessions that ignores except_session_id, which        *)
(* C30_RevokeAllExcept tells apart from revoke_all_user_sessions           *)
revoke_all_user_sessions_no_exception(db, uid, except_session_id, t) ==
    RevokeEach(db, SessionsNewestFirst(db, uid, Len(db.s)), t)

(* auth_enhanced.SessionService.revoke_all_user_sessions; except_session_id *)
(* is None or Some(session id)                                              *)
revoke_all_user_sessions(db, uid, except_session_id, t) ==
    LET RECURSIVE Ids(_)
        Ids(i) == IF i > Len(db.s) THEN <<>>
                  ELSE IF /\ db.s[i].user_id = uid
                          /\ (except_session_id = None
                                \/ db.s[i].session_id # except_session_id[1])
                       THEN <<db.s[i]>> \o Ids(i + 1)
                       ELSE Ids(i + 1)
    IN RevokeEach(db, Ids(1), t)

(* auth_service.SessionService.create_session: no cleanup, the column       *)
(* default of expires_at                                                    *)
create_session_v2(db, uid, t) ==
    Db(Append(db.s, UserSession(db, uid, t + SESSION_DEFAULT_DAYS, t)), db.t)

----------------------------------------------------------------------------
(* EnhancedAuthService *)

(* create_auth_tokens: a session, an access token and a refresh token bound *)
(* to it, committed.  The result carries the committed tables and what the  *)
(* caller receives.                                                         *)
create_auth_tokens(db, uid, remember_me, t) ==
    LET d == create_session(db, uid, remember_me, t)
        session == d.s[Len(d.s)]
        refresh_token_raw == generate_secure_token(d)
        row == RefreshToken(d, uid, session.session_id, refresh_token_raw,
                            session.expires_at, t)
    IN [ db            |-> Db(d.s, Append(d.t, row)),
         ok            |-> TRUE,
         refresh_token |-> refresh_token_raw,
         session_id    |-> session.session_id,
         access        |-> [sub |-> uid, sid |-> session.session_id, jti |-> row.jti] ]

Failure(db) ==
    [ db |-> db, ok |-> FALSE, refresh_token |-> 0, session_id |-> 0,
      access |-> [sub |-> 0, sid |-> 0, jti |-> 0] ]

(* The rows the SELECT of refresh_user_tokens returns *)
RefreshLookup(db, raw, t) ==
    {i \in DOMAIN db.t :
        /\ db.t[i].token_hash = hash_token(raw)
        /\ db.t[i].expires_at > t
        /\ db.t[i].is_active
        /\ db.t[i].revoked_at = None}

(* A rotation that leaves the old row as it was, which C1_SingleUse tells   *)
(* apart from RevokeOldToken                                               *)
RevokeOldToken_kept(row, t) == row

(* The old row after "Revoke old refresh token (rotation)" *)
RevokeOldToken(row, t) ==
    [row EXCEPT !.is_active = FALSE, !.revoked_at = Some(t)]

(* refresh_user_tokens continued after the SELECT returned row i *)
RefreshWrite(db, i, t) ==
    create_auth_tokens(Db(db.s, [db.t EXCEPT ![i] = RevokeOldToken(db.t[i], t)]),
                       db.t[i].user_id, TRUE, t)

refresh_user_tokens(db, raw, t) ==
    LET hit == RefreshLookup(db, raw, t) IN
    IF hit = {} THEN Failure(db)
    ELSE RefreshWrite(db, CHOOSE i \in hit : TRUE, t)

----------------------------------------------------------------------------
(* core/database.py get_db: the request scoped session.  `committed` is    *)
(* what the handler's own db.commit() calls made durable, `tx` the tables  *)
(* as the session sees them when the handler ends, `raised` whether the    *)
(* handler ended with an exception (HTTPException included).               *)
get_db(committed, tx, raised) ==
    IF raised THEN committed    \* except Exception: await session.rollback()
    ELSE tx                     \* await session.commit()

----------------------------------------------------------------------------
(* auth_service.RefreshTokenService and AuthService ("v2") *)

(* create_refresh_token: the column default of expires_at *)
create_refresh_token(db, uid, sid, t) ==
    RefreshToken(db, uid, sid, generate_secure_token(db), t + REFRESH_DEFAULT_DAYS, t)

(* AuthService.create_auth_tokens *)
create_auth_tokens_v2(db, uid, t) ==
    LET d == create_session_v2(db, uid, t)
        session == d.s[Len(d.s)]
        row == create_refresh_token(d, uid, session.session_id, t)
    IN [ db            |-> Db(d.s, Append(d.t, row)),
         ok            |-> TRUE,
         refresh_token |-> generate_secure_token(d),
         session_id    |-> session.session_id,
         access        |-> [sub |-> uid, sid |-> session.session_id, jti |-> row.jti] ]

(* A lookup that does not compare the hash, which C35_UnknownTokenNoChange  *)
(* tells apart from RotateLookup                                           *)
RotateLookup_any_hash(db, raw, t) ==
    {i \in DOMAIN db.t :
        /\ db.t[i].is_active
        /\ db.t[i].expires_at > t
        /\ db.t[i].used_at = None
        /\ db.t[i].revoked_at = None}

(* The rows the first SELECT of rotate_refresh_token returns *)
RotateLookup(db, raw, t) ==
    {i \in DOMAIN db.t :
        /\ db.t[i].token_hash = hash_token(raw)
        /\ db.t[i].is_active
        /\ db.t[i].expires_at > t
        /\ db.t[i].used_at = None
        /\ db.t[i].revoked_at = None}

(* _handle_token_reuse: the tables as the session sees them afterwards *)
handle_token_reuse(db, token_hash, t) ==
    LET hit == {i \in DOMAIN db.t : db.t[i].token_hash = token_hash} IN
    IF hit = {} THEN db
    ELSE LET compromised_token == db.t[CHOOSE i \in hit : TRUE]
             sid == compromised_token.session_id
         IN Db(RevokeSessionRow(db, sid, t), RevokeTokensOf(db, sid, t))

(* new_refresh_token.id when rotate_refresh_token reads it: the row was    *)
(* constructed but not flushed, and the column default (uuid4) is applied  *)
(* by the INSERT.                                                          *)
UnflushedId(row) == None

(* The old row after "Mark old token as used" and "Link tokens" *)
MarkUsed(row, new_row, t) ==
    [row EXCEPT !.used_at = Some(t), !.is_active = FALSE,
                !.replaced_by = UnflushedId(new_row)]

(* rotate_refresh_token continued after the SELECT returned row i *)
RotateWrite(db, i, t) ==
    LET old == db.t[i]
        new_token == generate_secure_token(db)
        new_row == [RefreshToken(db, old.user_id, old.session_id, new_token,
                                 t + REFRESH_DEFAULT_DAYS, t)
                    EXCEPT !.jti = Len(db.t) + 1]
    IN [ db        |-> Db(db.s, Append([db.t EXCEPT ![i] = MarkUsed(old, new_row, t)],
                                       new_row)),
         new_token |-> Some(new_token),
         row       |-> Some(new_row) ]

rotate_refresh_token(db, raw, t) ==
    LET hit == RotateLookup(db, raw, t) IN
    IF hit = {}
    THEN [ db        |-> handle_token_reuse(db, hash_token(raw), t),
           new_token |-> None,
           row       |-> None ]
    ELSE RotateWrite(db, CHOOSE i \in hit : TRUE, t)

(* What AuthService.refresh_access_token makes of the result of            *)
(* rotate_refresh_token, run under get_db from the committed tables db     *)
RefreshOutcomeV2(db, r) ==
    IF r.new_token = None \/ r.row = None
    THEN Failure(get_db(db, r.db, TRUE))           \* raise HTTPException(401)
    ELSE [ db            |-> get_db(r.db, r.db, FALSE),    \* await db.commit()
           ok            |-> TRUE,
           refresh_token |-> r.new_token[1],
           session_id    |-> r.row[1].session_id,
           access        |-> [sub |-> r.row[1].user_id, sid |-> r.row[1].session_id,
                              jti |-> r.row[1].jti] ]

refresh_access_token(db, raw, t) ==
    RefreshOutcomeV2(db, rotate_refresh_token(db, raw, t))

----------------------------------------------------------------------------
(* The dependency get_current_user.  verify is the outcome of verifying    *)
(* the presented access token ("valid", "expired", "invalid", or "missing" *)
(* when none was sent); sid is the sid claim of a valid token; cookie is   *)
(* the refresh_token cookie, 0 when absent.                                *)

Authenticated(db, uid, via, issued) ==
    [db |-> db, ok |-> TRUE, user |-> uid, via |-> via, issued |-> issued]
Unauthorized(db) ==
    [db |-> db, ok |-> FALSE, user |-> 0, via |-> "none", issued |-> 0]

(* try_refresh_and_return_user of api/auth_secure.py *)
try_refresh_and_return_user(db, cookie, t) ==
    IF cookie = 0 THEN Unauthorized(db)
    ELSE LET r == refresh_user_tokens(db, cookie, t) IN
         IF ~r.ok THEN Unauthorized(db)
         ELSE Authenticated(update_session_activity(r.db, r.session_id, t),
                            r.access.sub, "refresh", r.refresh_token)

(* A gate that only requires the session row to exist, which              *)
(* C6_SessionGate tells apart from SessionGate                             *)
SessionGate_any_session(db, sid, t) ==
    LET hit == {i \in DOMAIN db.s : db.s[i].session_id = sid} IN
    IF hit = {} THEN Unauthorized(get_db(db, db, TRUE))
    ELSE Authenticated(update_session_activity(db, sid, t),
                       db.s[CHOOSE i \in hit : TRUE].user_id, "token", 0)

(* The part of get_current_user after the token verified: the session gate *)
SessionGate(db, sid, t) ==
    LET session == get_active_session(db, sid, t) IN
    IF session = None THEN Unauthorized(get_db(db, db, TRUE))
    ELSE Authenticated(update_session_activity(db, sid, t), session[1].user_id,
                       "token", 0)

(* api/auth_secure.py get_current_user *)
get_current_user(db, verify, sid, cookie, t) ==
    IF verify # "valid" THEN try_refresh_and_return_user(db, cookie, t)
    ELSE SessionGate(db, sid, t)

(* api/auth_v2.py get_current_user: no silent refresh *)
get_current_user_v2(db, verify, sid, t) ==
    IF verify # "valid" THEN Unauthorized(db)
    ELSE SessionGate(db, sid, t)

(* EnhancedAuthService.logout_user *)
logout_user(db, sid, logout_all_sessions, t) ==
    IF logout_all_sessions
    THEN LET hit == {i \in DOMAIN db.s : db.s[i].session_id = sid} IN
         IF hit = {} THEN db
         ELSE revoke_all_user_sessions(db, db.s[CHOOSE i \in hit : TRUE].user_id, None, t)
    ELSE revoke_session(db, sid, t)

(* AuthService.logout_user *)
logout_user_v2(db, sid, t) == revoke_session(db, sid, t)

----------------------------------------------------------------------------
(* core/rate_limiter.py.  Time is in whole seconds.  A limit is a record    *)
(* [requests, window_seconds, strategy].  The reset_time of a result is not *)
(* modelled.  Token counts are fractions with denominator window_seconds:   *)
(* the model stores tokens * window_seconds, an integer.                    *)

Strategies == {"sliding_window", "token_bucket", "fixed_window"}
RateLimit(requests, window_seconds, strategy) ==
    [requests |-> requests, window_seconds |-> window_seconds, strategy |-> strategy]
RateLimitResult(allowed, remaining, retry_after) ==
    [allowed |-> allowed, remaining |-> remaining, retry_after |-> retry_after]

Min(a, b) == IF a < b THEN a ELSE b
Max(a, b) == IF a > b THEN a ELSE b

(* A key that leaves out the limit type, which C22_KeyIsolation tells      *)
(* apart from RateLimitKey                                                 *)
RateLimitKey_shared(identifier, limit_type) == <<"rate_limit", "", identifier>>

(* key = f"rate_limit:{limit_type}:{identifier}" *)
RateLimitKey(identifier, limit_type) == <<"rate_limit", limit_type, identifier>>
(* window_key = f"{key}:{window_number}" *)
WindowKey(key, window_number) == <<key, window_number>>
(* One window for all times, which C26_FixedWindow tells apart from         *)
(* WindowNumber                                                            *)
WindowNumber_same(limit, t) == 0

(* int(now // limit.window_seconds) *)
WindowNumber(limit, t) == t \div limit.window_seconds

(* A dict read with a default: d.get(k, default), defaultdict access *)
Get(d, k, default) == IF k \in DOMAIN d THEN d[k] ELSE default
Put(d, k, v) == [x \in DOMAIN d \cup {k} |-> IF x = k THEN v ELSE d[x]]

(* while requests and requests[0] < window_start: requests.popleft() *)
RECURSIVE PopOld(_, _)
PopOld(requests, window_start) ==
    IF requests # <<>> /\ Head(requests) < window_start
    THEN PopOld(Tail(requests), window_start)
    ELSE requests

(* MemoryRateLimiter._sliding_window_check *)
mem_sliding_window_check(m, key, limit, t) ==
    LET window_start == t - limit.window_seconds
        requests == PopOld(Get(m.requests, key, <<>>), window_start)
        allowed == Len(requests) < limit.requests
        remaining == Max(0, limit.requests - Len(requests))
    IN [ result |-> RateLimitResult(allowed, remaining,
                        IF allowed THEN None ELSE Some(limit.window_seconds)),
         m |-> [m EXCEPT !.requests =
                    Put(m.requests, key,
                        IF allowed THEN Append(requests, t) ELSE requests)] ]

(* A refill without the cap at limit.requests, which C25_TokenBucket tells  *)
(* apart from Refill                                                       *)
Refill_uncapped(limit, current_tokens, last_refill, t) ==
    current_tokens + (t - last_refill) * limit.requests

(* The refill of both token bucket checks: min(limit.requests,             *)
(* current_tokens + time_passed * refill_rate), times window_seconds       *)
Refill(limit, current_tokens, last_refill, t) ==
    Min(limit.requests * limit.window_seconds,
        current_tokens + (t - last_refill) * limit.requests)

(* int(1 / refill_rate) with refill_rate = requests / window_seconds *)
TimeForToken(limit) == limit.window_seconds \div limit.requests

(* MemoryRateLimiter._token_bucket_check *)
mem_token_bucket_check(m, key, limit, t) ==
    LET bucket == Get(m.token_buckets, key, None)
        current_tokens == IF bucket = None
                          THEN limit.requests * limit.window_seconds
                          ELSE bucket[1].tokens
        last_refill == IF bucket = None THEN t ELSE bucket[1].last_refill
        new_tokens == Refill(limit, current_tokens, last_refill, t)
        allowed == new_tokens >= limit.window_seconds
        left == IF allowed THEN new_tokens - limit.window_seconds ELSE new_tokens
        remaining == IF allowed THEN left \div limit.window_seconds ELSE 0
    IN [ result |-> RateLimitResult(allowed, remaining,
                        IF allowed THEN None ELSE Some(TimeForToken(limit))),
         m |-> [m EXCEPT !.token_buckets =
                    Put(m.token_buckets, key,
                        Some([tokens |-> left, last_refill |-> t]))] ]

(* MemoryRateLimiter._fixed_window_check *)
mem_fixed_window_check(m, key, limit, t) ==
    LET window_key == WindowKey(key, WindowNumber(limit, t))
        requests == Get(m.requests, window_key, <<>>)
        current_requests == Len(requests) + 1
        allowed == current_requests <= limit.requests
        remaining == Max(0, limit.requests - current_requests)
    IN [ result |-> RateLimitResult(allowed, remaining,
                        IF allowed THEN None ELSE Some(limit.window_seconds)),
         m |-> [m EXCEPT !.requests =
                    Put(m.requests, window_key,
                        IF allowed THEN Append(requests, t) ELSE requests)] ]

(* MemoryRateLimiter.check_rate_limit *)
mem_check_rate_limit(m, key, limit, t) ==
    IF limit.strategy = "sliding_window" THEN mem_sliding_window_check(m, key, limit, t)
    ELSE IF limit.strategy = "token_bucket" THEN mem_token_bucket_check(m, key, limit, t)
    ELSE mem_fixed_window_check(m, key, limit, t)

(* RedisRateLimiter.  The server r holds sorted sets (z: key -> the set of  *)
(* members; the member of an entry is str(now) and so is its score), hashes *)
(* (h: bucket key -> tokens and last_refill) and counters (n).  A command   *)
(* sent while the server is unreachable raises.  Key expiry (expire) only   *)
(* removes keys whose content no longer matters to a later check.           *)

(* What a check yields: a result, or an exception raised to the caller *)
Returned(result, r) == [raised |-> FALSE, result |-> result, r |-> r]
Raised(r) == [raised |-> TRUE, result |-> RateLimitResult(FALSE, 0, None), r |-> r]

(* pipe.zremrangebyscore(key, 0, window_start); pipe.zcard(key);            *)
(* pipe.zadd(key, {str(now): now}); pipe.expire(...): one MULTI/EXEC        *)
redis_sliding_pipeline(r, key, limit, t) ==
    LET window_start == t - limit.window_seconds
        kept == {x \in Get(r.z, key, {}) : ~(0 <= x /\ x <= window_start)}
    IN [ current_requests |-> Cardinality(kept),
         r |-> [r EXCEPT !.z = Put(r.z, key, kept \cup {t})] ]

(* RedisRateLimiter._sliding_window_check after pipe.execute() *)
redis_sliding_finish(r, key, limit, t, current_requests) ==
    LET allowed == current_requests < limit.requests
        remaining == Max(0, limit.requests - current_requests)
    IN IF allowed THEN Returned(RateLimitResult(TRUE, remaining, None), r)
       ELSE IF ~r.up THEN Raised(r)
       ELSE Returned(RateLimitResult(FALSE, remaining, Some(limit.window_seconds)),
                     [r EXCEPT !.z = Put(r.z, key, Get(r.z, key, {}) \ {t})])

redis_sliding_window_check(r, key, limit, t) ==
    IF ~r.up THEN Raised(r)
    ELSE LET p == redis_sliding_pipeline(r, key, limit, t)
         IN redis_sliding_finish(p.r, key, limit, t, p.current_requests)

(* bucket_data = await self.redis_client.hmget(bucket_key, "tokens",        *)
(* "last_refill")                                                           *)
redis_hmget(r, key) == Get(r.h, key, None)

(* RedisRateLimiter._token_bucket_check after the hmget returned *)
redis_token_bucket_finish(r, key, limit, t, bucket_data) ==
    LET current_tokens == IF bucket_data = None
                          THEN limit.requests * limit.window_seconds
                          ELSE bucket_data[1].tokens
        last_refill == IF bucket_data = None THEN t ELSE bucket_data[1].last_refill
        new_tokens == Refill(limit, current_tokens, last_refill, t)
        allowed == new_tokens >= limit.window_seconds
        left == IF allowed THEN new_tokens - limit.window_seconds ELSE new_tokens
        remaining == IF allowed THEN left \div limit.window_seconds ELSE 0
    IN IF ~r.up THEN Raised(r)
       ELSE Returned(RateLimitResult(allowed, remaining,
                        IF remaining = 0 THEN Some(TimeForToken(limit)) ELSE None),
                     [r EXCEPT !.h = Put(r.h, key,
                                         Some([tokens |-> left, last_refill |-> t]))])

redis_token_bucket_check(r, key, limit, t) ==
    IF ~r.up THEN Raised(r)
    ELSE redis_token_bucket_finish(r, key, limit, t, redis_hmget(r, key))

(* RedisRateLimiter._fixed_window_check: INCR counts denied checks too *)
redis_fixed_window_check(r, key, limit, t) ==
    LET window_key == WindowKey(key, WindowNumber(limit, t))
        current_requests == Get(r.n, window_key, 0) + 1
        allowed == current_requests <= limit.requests
        remaining == Max(0, limit.requests - current_requests)
    IN IF ~r.up THEN Raised(r)
       ELSE Returned(RateLimitResult(allowed, remaining,
                        IF allowed THEN None ELSE Some(limit.window_seconds)),
                     [r EXCEPT !.n = Put(r.n, window_key, current_requests)])

(* RedisRateLimiter.check_rate_limit *)
redis_check_rate_limit(connected, r, key, limit, t) ==
    IF ~connected THEN Raised(r)        \* raise Exception("Redis not connected")
    ELSE IF limit.strategy = "sliding_window"
    THEN redis_sliding_window_check(r, key, limit, t)
    ELSE IF limit.strategy = "token_bucket"
    THEN redis_token_bucket_check(r, key, limit, t)
    ELSE redis_fixed_window_check(r, key, limit, t)

(* RedisRateLimiter.connect: the flag _connected afterwards; the exception *)
(* of a failed ping is caught inside connect                               *)
redis_connect(r) == r.up

(* RateLimitManager.__init__: use_redis = redis_url is not None and         *)
(* REDIS_AVAILABLE, with the redis package installed                        *)
RateLimitManager(redis_url, limit) ==
    [use_redis |-> redis_url # None, connected |-> FALSE, limit |-> limit]

(* RateLimitManager.initialize: connect never raises, so use_redis stays *)
initialize(mgr, r) ==
    IF mgr.use_redis THEN [mgr EXCEPT !.connected = redis_connect(r)] ELSE mgr

(* An except branch that denies, which C13_FailOpen tells apart from       *)
(* FailOpen                                                                *)
FailClosed(limit) == RateLimitResult(FALSE, 0, Some(limit.window_seconds))

(* The result of the except branch of RateLimitManager.check_rate_limit *)
FailOpen(limit) == RateLimitResult(TRUE, limit.requests, None)

(* RateLimitManager.check_rate_limit with custom_limit = mgr.limit: the     *)
(* result, which backend served it, and both stores afterwards              *)
check_rate_limit(mgr, m, r, identifier, limit_type, t) ==
    LET limit == mgr.limit
        key == RateLimitKey(identifier, limit_type)
    IN IF mgr.use_redis
       THEN LET c == redis_check_rate_limit(mgr.connected, r, key, limit, t) IN
            IF c.raised
            THEN [result |-> FailOpen(limit), backend |-> "fail_open", m |-> m, r |-> c.r]
            ELSE [result |-> c.result, backend |-> "redis", m |-> m, r |-> c.r]
       ELSE LET c == mem_check_rate_limit(m, key, limit, t) IN
            [result |-> c.result, backend |-> "memory", m |-> c.m, r |-> r]

----------------------------------------------------------------------------
(* Passwords and login.  A stored hash is <<scheme, password>>: argon2 of  *)
(* hash_password, or the bcrypt hash that api/auth.py stores in the same    *)
(* column.  Times are seconds.                                              *)

hash_password(password) == <<"argon2", password>>
legacy_hash(password) == <<"bcrypt", password>>

(* PasswordHasher.verify: "ok", VerifyMismatchError, or InvalidHashError   *)
(* for a string that is not an argon2 hash                                  *)
ph_verify(password_hash, password) ==
    IF password_hash[1] # "argon2" THEN "InvalidHashError"
    ELSE IF password_hash[2] # password THEN "VerifyMismatchError"
    ELSE "ok"

(* CryptoService.verify_password of auth_enhanced.py: every exception is   *)
(* caught                                                                  *)
verify_password_enhanced(password, password_hash) ==
    [raised |-> FALSE, value |-> ph_verify(password_hash, password) = "ok"]

(* CryptoService.verify_password of auth_service.py: only                  *)
(* VerifyMismatchError is caught                                           *)
verify_password_v2(password, password_hash) ==
    LET v == ph_verify(password_hash, password) IN
    [raised |-> v = "InvalidHashError", value |-> v = "ok"]

verify_password(i, password, password_hash) ==
    IF i = "enhanced" THEN verify_password_enhanced(password, password_hash)
    ELSE verify_password_v2(password, password_hash)

(* A row of table users, as far as login reads and writes it *)
User(password_hash) ==
    [password_hash |-> password_hash, failed_login_attempts |-> 0,
     locked_until |-> None]

(* RateLimitManager.DEFAULT_LIMITS["auth_login"] *)
AuthLoginLimit == RateLimit(5, 300, "sliding_window")

(* select(User).where(User.email == email, User.is_active == True) *)
FindUser(accts, email) == IF email \in DOMAIN accts THEN Some(accts[email]) ELSE None

(* A lock check that never finds the account locked, which C15_Lockout     *)
(* tells apart from IsLocked                                               *)
IsLocked_never(user, t) == FALSE

(* user.locked_until and user.locked_until > datetime.utcnow() *)
IsLocked(user, t) == user.locked_until # None /\ user.locked_until[1] > t

(* A wrong-password branch that starts the count again when it locks,     *)
(* which C16_ResetOnlyOnSuccess tells apart from CountFailure              *)
CountFailure_restart(user, attempts_limit, lockout_minutes, t) ==
    LET n == user.failed_login_attempts + 1 IN
    IF n >= attempts_limit
    THEN [user EXCEPT !.failed_login_attempts = 0,
                      !.locked_until = Some(t + lockout_minutes * 60)]
    ELSE [user EXCEPT !.failed_login_attempts = n]

(* A wrong-password branch that starts the count again once a lock has     *)
(* run out, which C38_RelockWhenAdmitted tells apart from CountFailure     *)
CountFailure_expiry_resets(user, attempts_limit, lockout_minutes, t) ==
    LET n == IF user.locked_until # None /\ user.locked_until[1] <= t
             THEN 1
             ELSE user.failed_login_attempts + 1
    IN [user EXCEPT !.failed_login_attempts = n,
                    !.locked_until = IF n >= attempts_limit
                                     THEN Some(t + lockout_minutes * 60)
                                     ELSE user.locked_until]

(* The wrong-password branch: count the attempt, lock at the limit *)
CountFailure(user, attempts_limit, lockout_minutes, t) ==
    LET n == user.failed_login_attempts + 1 IN
    [user EXCEPT !.failed_login_attempts = n,
                 !.locked_until = IF n >= attempts_limit
                                  THEN Some(t + lockout_minutes * 60)
                                  ELSE user.locked_until]

(* The success branch *)
ResetFailures(user) ==
    [user EXCEPT !.failed_login_attempts = 0, !.locked_until = None]

(* What a login call leaves and shows: the HTTP status and detail (200 and *)
(* the user when authenticated), the users table and the limiter store,     *)
(* whether the limiter rejected it and whether the password was checked     *)
LoginOutcome(status, detail, user, accts, m, limited, verified) ==
    [status |-> status, detail |-> detail, user |-> user, accounts |-> accts,
     m |-> m, limited |-> limited, verified |-> verified]

(* An answer to an unknown email that differs from the wrong-password one, *)
(* which C17_NoEnumeration tells apart from UserNotFound                    *)
UserNotFound_404 == [status |-> 404, detail |-> "User not found"]

(* EnhancedAuthService.authenticate_user: the HTTPException for an unknown  *)
(* email and the one for a wrong password                                   *)
UserNotFound == [status |-> 401, detail |-> "Invalid email or password"]
InvalidPassword == [status |-> 401, detail |-> "Invalid email or password"]

LoginIdentifier(client_ip, email) == <<"login", client_ip, email>>
FailedLoginIdentifier(client_ip, email) == <<"failed_login", client_ip, email>>

(* An authenticate_user whose successful logins give their unit of the     *)
(* login budget back, which C39_EveryCallCounts tells apart from           *)
(* authenticate_user_enhanced                                              *)
authenticate_user_enhanced_success_free(accts, mgr, m, r, client_ip, email, password, t) ==
    LET c1 == check_rate_limit(mgr, m, r, LoginIdentifier(client_ip, email),
                               "auth_login", t)
        c2 == check_rate_limit(mgr, c1.m, r, FailedLoginIdentifier(client_ip, email),
                               "auth_login", t)
        found == FindUser(accts, email)
        user == found[1]
        pw == verify_password_enhanced(password, user.password_hash)
    IN IF ~c1.result.allowed
       THEN LoginOutcome(429, "Too many failed login attempts. Please try again later.",
                         None, accts, c1.m, TRUE, FALSE)
       ELSE IF found = None \/ user.password_hash = None
       THEN LoginOutcome(UserNotFound.status, UserNotFound.detail, None, accts,
                         c2.m, FALSE, FALSE)
       ELSE IF IsLocked(user, t)
       THEN LoginOutcome(423, "Account temporarily locked. Please try again later.",
                         None, accts, c1.m, FALSE, FALSE)
       ELSE IF ~pw.value
       THEN LoginOutcome(InvalidPassword.status, InvalidPassword.detail, None,
                         Put(accts, email, CountFailure(user, LOGIN_ATTEMPTS_LIMIT,
                                                        LOCKOUT_DURATION_MINUTES, t)),
                         c2.m, FALSE, TRUE)
       ELSE LoginOutcome(200, "", Some(email), Put(accts, email, ResetFailures(user)),
                         m, FALSE, TRUE)

(* An authenticate_user that checks the password before it asks the rate  *)
(* limiter, which C34_RateLimitFirst tells apart from                      *)
(* authenticate_user_enhanced                                              *)
authenticate_user_enhanced_password_first(accts, mgr, m, r, client_ip, email, password, t) ==
    LET c1 == check_rate_limit(mgr, m, r, LoginIdentifier(client_ip, email),
                               "auth_login", t)
        c2 == check_rate_limit(mgr, c1.m, r, FailedLoginIdentifier(client_ip, email),
                               "auth_login", t)
        found == FindUser(accts, email)
        user == found[1]
        pw == verify_password_enhanced(password, user.password_hash)
    IN IF ~c1.result.allowed
       THEN LoginOutcome(429, "Too many failed login attempts. Please try again later.",
                         None,
                         IF found # None /\ ~pw.value
                         THEN Put(accts, email, CountFailure(user, LOGIN_ATTEMPTS_LIMIT,
                                                             LOCKOUT_DURATION_MINUTES, t))
                         ELSE accts,
                         c1.m, TRUE, found # None)
       ELSE IF found = None \/ user.password_hash = None
       THEN LoginOutcome(UserNotFound.status, UserNotFound.detail, None, accts,
                         c2.m, FALSE, FALSE)
       ELSE IF IsLocked(user, t)
       THEN LoginOutcome(423, "Account temporarily locked. Please try again later.",
                         None, accts, c1.m, FALSE, FALSE)
       ELSE IF ~pw.value
       THEN LoginOutcome(InvalidPassword.status, InvalidPassword.detail, None,
                         Put(accts, email, CountFailure(user, LOGIN_ATTEMPTS_LIMIT,
                                                        LOCKOUT_DURATION_MINUTES, t)),
                         c2.m, FALSE, TRUE)
       ELSE LoginOutcome(200, "", Some(email), Put(accts, email, ResetFailures(user)),
                         c1.m, FALSE, TRUE)

(* EnhancedAuthService.authenticate_user *)
authenticate_user_enhanced(accts, mgr, m, r, client_ip, email, password, t) ==
    LET c1 == check_rate_limit(mgr, m, r, LoginIdentifier(client_ip, email),
                               "auth_login", t)
        c2 == check_rate_limit(mgr, c1.m, r, FailedLoginIdentifier(client_ip, email),
                               "auth_login", t)
        found == FindUser(accts, email)
        user == found[1]
        pw == verify_password_enhanced(password, user.password_hash)
    IN IF ~c1.result.allowed
       THEN LoginOutcome(429, "Too many failed login attempts. Please try again later.",
                         None, accts, c1.m, TRUE, FALSE)
       ELSE IF found = None \/ user.password_hash = None
       THEN LoginOutcome(UserNotFound.status, UserNotFound.detail, None, accts,
                         c2.m, FALSE, FALSE)
       ELSE IF IsLocked(user, t)
       THEN LoginOutcome(423, "Account temporarily locked. Please try again later.",
                         None, accts, c1.m, FALSE, FALSE)
       ELSE IF ~pw.value
       THEN LoginOutcome(InvalidPassword.status, InvalidPassword.detail, None,
                         Put(accts, email, CountFailure(user, LOGIN_ATTEMPTS_LIMIT,
                                                        LOCKOUT_DURATION_MINUTES, t)),
                         c2.m, FALSE, TRUE)
       ELSE LoginOutcome(200, "", Some(email), Put(accts, email, ResetFailures(user)),
                         c1.m, FALSE, TRUE)

(* AuthService.authenticate_user under the login route of api/auth_v2.py:  *)
(* None becomes 401, an exception that is not an HTTPException becomes 500  *)
authenticate_user_v2(accts, m, email, password, t) ==
    LET found == FindUser(accts, email)
        user == found[1]
        pw == verify_password_v2(password, user.password_hash)
    IN IF found = None \/ user.password_hash = None
       THEN LoginOutcome(401, "Invalid credentials", None, accts, m, FALSE, FALSE)
       ELSE IF IsLocked(user, t)
       THEN LoginOutcome(423, "Account temporarily locked due to failed login attempts",
                         None, accts, m, FALSE, FALSE)
       ELSE IF pw.raised
       THEN LoginOutcome(500, "Internal Server Error", None, accts, m, FALSE, TRUE)
       ELSE IF ~pw.value
       THEN LoginOutcome(401, "Invalid credentials", None,
                         Put(accts, email, CountFailure(user, MAX_FAILED_ATTEMPTS,
                                                        AUTH_LOCKOUT_DURATION_MINUTES, t)),
                         m, FALSE, TRUE)
       ELSE LoginOutcome(200, "", Some(email), Put(accts, email, ResetFailures(user)),
                         m, FALSE, TRUE)

authenticate_user(i, accts, mgr, m, r, client_ip, email, password, t) ==
    IF i = "enhanced"
    THEN authenticate_user_enhanced(accts, mgr, m, r, client_ip, email, password, t)
    ELSE authenticate_user_v2(accts, m, email, password, t)

----------------------------------------------------------------------------
(* The requests, one action each.  Spec runs them one at a time. *)

(* last: the request (op, arg), whether it succeeded (ok), what it returned *)
(* (out) and, for get_current_user, how the access token verified (verify) *)
(* and what authenticated the request (via)                                *)
Result(op, ok, arg, out, verify, via) ==
    [op |-> op, ok |-> ok, arg |-> arg, out |-> out, verify |-> verify, via |-> via]
NoResult == Result("init", TRUE, 0, 0, "none", "none")
Idle == [st |-> "idle", raw |-> 0, hit |-> 0]
NoJwt == [minted |-> FALSE]
NoVerdict == [outcome |-> "none"]

InitAuth ==
    /\ now = 0
    /\ sessions = <<>>
    /\ tokens = <<>>
    /\ last = NoResult
    /\ rotations = {}
    /\ pc = [p \in Procs |-> Idle]

InitJwtIdle ==
    /\ tz = 0
    /\ clock = 0
    /\ jwt = NoJwt
    /\ verdict = NoVerdict

(* MemoryRateLimiter.__init__, an empty Redis server, no check made *)
EmptyDict == <<>>
MemoryRateLimiter == [requests |-> EmptyDict, token_buckets |-> EmptyDict]
RedisServer(up) == [up |-> up, z |-> EmptyDict, h |-> EmptyDict, n |-> EmptyDict]
NoRlResult == [made |-> FALSE]
RlIdle == [st |-> "idle"]

InitRlStores ==
    /\ memory_limiter = MemoryRateLimiter
    /\ rltime = 0
    /\ rlresult = NoRlResult
    /\ rlhist = EmptyDict
    /\ rlpc = [p \in Procs |-> RlIdle]

InitRlIdle ==
    /\ manager = RateLimitManager(None, RateLimit(1, 1, "sliding_window"))
    /\ redis = RedisServer(FALSE)
    /\ InitRlStores

(* No account, no login made *)
NoLogin == [made |-> FALSE]
InitAcctIdle ==
    /\ accounts = EmptyDict
    /\ login = NoLogin
    /\ streak = EmptyDict

(* No password hashed or verified *)
NoPwCheck == [made |-> FALSE]
InitPwIdle ==
    /\ stored = {}
    /\ pwcheck = NoPwCheck

(* Both key files written by an earlier run, no CryptoService starting *)
KeyPair(p) == [private |-> Some(<<"private", p>>), public |-> Some(<<"public", p>>)]
KeyIdle == [st |-> "done", generated |-> FALSE, key |-> None,
            private_key |-> None, public_key |-> None]
InitKeyIdle ==
    /\ keyfiles = KeyPair(0)
    /\ kpc = [p \in Procs |-> KeyIdle]

InitOtherIdle == InitRlIdle /\ InitAcctIdle /\ InitPwIdle /\ InitKeyIdle

Init ==
    /\ impl \in Impls
    /\ InitAuth
    /\ InitJwtIdle
    /\ InitOtherIdle

(* The tables fit the bounds of the model *)
Fits(db, maxS, maxT) == Len(db.s) <= maxS /\ Len(db.t) <= maxT

(* POST /login after authenticate_user returned user u *)
LoginWithin(u, remember_me, maxS) ==
    /\ LET r == IF impl = "enhanced"
                THEN create_auth_tokens(Db(sessions, tokens), u, remember_me, now)
                ELSE create_auth_tokens_v2(Db(sessions, tokens), u, now)
       IN /\ Fits(r.db, maxS, maxS + 1)
          /\ sessions' = r.db.s
          /\ tokens' = r.db.t
          /\ last' = Result("login", TRUE, u, r.session_id, "none", "none")
    /\ UNCHANGED <<impl, now, rotations, concVars, jwtVars, otherVars>>

Login(u, remember_me) == LoginWithin(u, remember_me, MaxSessions)

(* POST /refresh presenting the raw token `raw` *)
Refresh(raw) ==
    /\ LET r == IF impl = "enhanced"
                THEN refresh_user_tokens(Db(sessions, tokens), raw, now)
                ELSE refresh_access_token(Db(sessions, tokens), raw, now)
       IN /\ Fits(r.db, MaxSessions, MaxTokens)
          /\ sessions' = r.db.s
          /\ tokens' = r.db.t
          /\ last' = Result("refresh", r.ok, raw, r.refresh_token, "none", "none")
          /\ rotations' = IF r.ok THEN rotations \cup {<<raw, r.refresh_token>>}
                          ELSE rotations
    /\ UNCHANGED <<impl, now, concVars, jwtVars, otherVars>>

(* Any authenticated route: the dependency get_current_user *)
GetCurrentUser(verify, sid, cookie) ==
    /\ impl = "v2" => cookie = 0
    /\ LET r == IF impl = "enhanced"
                THEN get_current_user(Db(sessions, tokens), verify, sid, cookie, now)
                ELSE get_current_user_v2(Db(sessions, tokens), verify, sid, now)
       IN /\ Fits(r.db, MaxSessions, MaxTokens)
          /\ sessions' = r.db.s
          /\ tokens' = r.db.t
          /\ last' = Result("get_current_user", r.ok,
                             IF verify = "valid" THEN sid ELSE cookie,
                             r.user, verify, r.via)
          /\ rotations' = IF r.via = "refresh"
                          THEN rotations \cup {<<cookie, r.issued>>}
                          ELSE rotations
    /\ UNCHANGED <<impl, now, concVars, jwtVars, otherVars>>

(* POST /logout with a valid access token of session sid: the dependency   *)
(* get_current_user, then logout_user                                      *)
Logout(sid, logout_all) ==
    /\ impl = "v2" => ~logout_all
    /\ LET g == IF impl = "enhanced"
                THEN get_current_user(Db(sessions, tokens), "valid", sid, 0, now)
                ELSE get_current_user_v2(Db(sessions, tokens), "valid", sid, now)
           d == IF ~g.ok THEN g.db
                ELSE IF impl = "enhanced" THEN logout_user(g.db, sid, logout_all, now)
                ELSE logout_user_v2(g.db, sid, now)
       IN /\ sessions' = d.s
          /\ tokens' = d.t
          /\ last' = Result("logout", g.ok, sid, 0, "none",
                             IF logout_all THEN "all_sessions" ELSE "none")
    /\ UNCHANGED <<impl, now, rotations, concVars, jwtVars, otherVars>>

Tick(d) ==
    /\ now + d <= MaxTime
    /\ now' = now + d
    /\ last' = Result("tick", TRUE, d, 0, "none", "none")
    /\ UNCHANGED <<impl, sessions, tokens, rotations, concVars, jwtVars, otherVars>>

VerifyOutcomes == {"valid", "expired", "invalid", "missing"}

Next ==
    \/ \E u \in Users, r \in BOOLEAN : Login(u, r)
    \/ \E raw \in 1..(Len(tokens) + 1) : Refresh(raw)
    \/ \E v \in VerifyOutcomes, sid \in 1..Len(sessions), c \in 0..Len(tokens) :
            GetCurrentUser(v, sid, c)
    \/ \E sid \in 1..Len(sessions), a \in BOOLEAN : Logout(sid, a)
    \/ \E d \in TickDays : Tick(d)

Spec == Init /\ [][Next]_vars

----------------------------------------------------------------------------
(* Concurrent refresh requests.  Each request has its own database session; *)
(* its SELECT and its writes are separate steps, as the handler awaits the  *)
(* database between them and nothing locks the row it read (no SELECT ...   *)
(* FOR UPDATE, no version column; the UPDATE is by primary key).            *)

(* The request of process p runs its SELECT *)
ConcSelect(p, raw) ==
    /\ pc[p].st = "idle"
    /\ LET hit == IF impl = "enhanced"
                  THEN RefreshLookup(Db(sessions, tokens), raw, now)
                  ELSE RotateLookup(Db(sessions, tokens), raw, now)
       IN pc' = [pc EXCEPT ![p] = [st |-> "selected", raw |-> raw,
                                   hit |-> IF hit = {} THEN 0
                                           ELSE CHOOSE i \in hit : TRUE]]
    /\ UNCHANGED <<authVars, jwtVars, otherVars>>

(* The request of process p runs to its end from what its SELECT returned *)
ConcFinish(p) ==
    /\ pc[p].st = "selected"
    /\ LET db == Db(sessions, tokens)
           r == IF pc[p].hit = 0
                THEN IF impl = "enhanced" THEN Failure(db)
                     ELSE RefreshOutcomeV2(db,
                            [db |-> handle_token_reuse(db, hash_token(pc[p].raw), now),
                             new_token |-> None, row |-> None])
                ELSE IF impl = "enhanced" THEN RefreshWrite(db, pc[p].hit, now)
                     ELSE RefreshOutcomeV2(db, RotateWrite(db, pc[p].hit, now))
       IN /\ Fits(r.db, MaxSessions + 1, MaxTokens)
          /\ sessions' = r.db.s
          /\ tokens' = r.db.t
          /\ last' = Result("refresh", r.ok, pc[p].raw, r.refresh_token,
                             "none", "none")
          /\ rotations' = IF r.ok THEN rotations \cup {<<pc[p].raw, r.refresh_token>>}
                          ELSE rotations
    /\ pc' = [pc EXCEPT ![p] = Idle]
    /\ UNCHANGED <<impl, now, jwtVars, otherVars>>

NextConc ==
    \/ \E u \in Users, r \in BOOLEAN : Login(u, r)
    \/ \E p \in Procs, raw \in 1..Len(tokens) : ConcSelect(p, raw)
    \/ \E p \in Procs : ConcFinish(p)

SpecConc == Init /\ [][NextConc]_vars

----------------------------------------------------------------------------
(* A logout racing a refresh: POST /logout (revoke_session, committed by    *)
(* get_db) may run between the SELECT of a refresh request and its writes.  *)

NextRace ==
    \/ \E u \in Users : Login(u, FALSE)
    \/ \E p \in Procs, raw \in 1..Len(tokens) : ConcSelect(p, raw)
    \/ \E p \in Procs : ConcFinish(p)
    \/ \E sid \in 1..Len(sessions) : Logout(sid, FALSE)

SpecRace == Init /\ [][NextRace]_vars

----------------------------------------------------------------------------
(* The session cap: logins of one user with the enhanced service, up to    *)
(* MaxCapSessions sessions                                                 *)

CapUsers == {1}

InitCap ==
    /\ impl = "enhanced"
    /\ InitAuth
    /\ InitJwtIdle
    /\ InitOtherIdle

CapLogin(u, remember_me) == LoginWithin(u, remember_me, MaxCapSessions)

NextCap ==
    \/ \E u \in CapUsers, r \in BOOLEAN : CapLogin(u, r)
    \/ \E d \in TickDays : Tick(d)

SpecCap == InitCap /\ [][NextCap]_vars

----------------------------------------------------------------------------
(* Revoking the sessions of a user: the enhanced service with logins of two *)
(* users, refreshes, logouts, and SessionService.revoke_all_user_sessions   *)
(* called with or without except_session_id and committed by its caller,    *)
(* all within one day.                                                      *)

InitRevoke ==
    /\ impl = "enhanced"
    /\ InitAuth
    /\ InitJwtIdle
    /\ InitOtherIdle

RevokeLogin(u, remember_me) == LoginWithin(u, remember_me, MaxRevokeSessions)

(* await sessions.revoke_all_user_sessions(db, user_id, except_session_id); *)
(* except_session_id is None or Some(session id)                            *)
RevokeAll(user_id, except_session_id) ==
    /\ \E d \in {revoke_all_user_sessions(Db(sessions, tokens), user_id,
                                          except_session_id, now)} :
          /\ sessions' = d.s
          /\ tokens' = d.t
    /\ last' = Result("revoke_all", TRUE, user_id,
                      IF except_session_id = None THEN 0 ELSE except_session_id[1],
                      "none", "none")
    /\ UNCHANGED <<impl, now, rotations, concVars, jwtVars, otherVars>>

NextRevoke ==
    \/ \E u \in Users : RevokeLogin(u, FALSE)
    \/ \E raw \in 1..Len(tokens) : Refresh(raw)
    \/ \E u \in Users : RevokeAll(u, None)
    \/ \E u \in Users, sid \in 1..Len(sessions) : RevokeAll(u, Some(sid))
    \/ \E sid \in 1..Len(sessions) : Logout(sid, TRUE)

SpecRevoke == InitRevoke /\ [][NextRevoke]_vars

----------------------------------------------------------------------------
(* Two users side by side on the enhanced service: logins, refreshes and    *)
(* logouts of either, up to MaxFrameSessions sessions, with time passing    *)
(* so that sessions expire and the cleanup of create_session has work.      *)

FrameLogin(u, remember_me) == LoginWithin(u, remember_me, MaxFrameSessions)

NextFrame ==
    \/ \E u \in Users : FrameLogin(u, FALSE)
    \/ \E raw \in 1..Len(tokens) : Refresh(raw)
    \/ \E sid \in 1..Len(sessions) : Logout(sid, FALSE)
    \/ \E d \in TickDays : Tick(d)

SpecFrame == InitRevoke /\ [][NextFrame]_vars

----------------------------------------------------------------------------
(* Activity stamping: requests with a valid access token against the      *)
(* enhanced service, one day at a time.  The UPDATE of                      *)
(* update_session_activity, or the commit after it, may fail (the database  *)
(* is locked or unreachable).                                               *)

(* How a request ends when an exception that is not an HTTPException       *)
(* leaves the dependency: 500, and get_db rolls back                        *)
ServerError(db) ==
    [db |-> db, ok |-> FALSE, user |-> 0, via |-> "error", issued |-> 0]

(* api/auth_secure.py get_current_user for a valid access token: the       *)
(* statements after the session gate are outside every try block            *)
get_current_user_stamping(db, sid, t, write_fails) ==
    IF get_active_session(db, sid, t) # None /\ write_fails
    THEN ServerError(get_db(db, update_session_activity(db, sid, t), TRUE))
    ELSE get_current_user(db, "valid", sid, 0, t)

InitStamp ==
    /\ impl = "enhanced"
    /\ InitAuth
    /\ InitJwtIdle
    /\ InitOtherIdle

StampRequest(sid, write_fails) ==
    /\ \E r \in {get_current_user_stamping(Db(sessions, tokens), sid, now, write_fails)} :
          /\ sessions' = r.db.s
          /\ tokens' = r.db.t
          /\ last' = Result("get_current_user", r.ok, sid, r.user, "valid", r.via)
    /\ UNCHANGED <<impl, now, rotations, concVars, jwtVars, otherVars>>

StampTick ==
    /\ now < MaxStampTime
    /\ now' = now + 1
    /\ last' = Result("tick", TRUE, 1, 0, "none", "none")
    /\ UNCHANGED <<impl, sessions, tokens, rotations, concVars, jwtVars, otherVars>>

NextStamp ==
    \/ \E u \in Users, r \in BOOLEAN : Login(u, r)
    \/ \E sid \in 1..Len(sessions), f \in BOOLEAN : StampRequest(sid, f)
    \/ StampTick

SpecStamp == InitStamp /\ [][NextStamp]_vars

----------------------------------------------------------------------------
(* auth_enhanced.JWTService: signed bearer tokens.  Time is in minutes.     *)

TokenType == {"access", "refresh", "email_verification", "password_reset", "mfa"}

(* Offsets of the server's local time zone from UTC, in minutes *)
TzOffsets == {-300, 0, 180}
ClockSteps == {MFA_TOKEN_EXPIRE_MINUTES, ACCESS_TOKEN_EXPIRE_MINUTES}

(* datetime.timestamp() of the naive datetime returned by datetime.utcnow(): *)
(* a naive datetime is read as local time, so the POSIX timestamp of the     *)
(* UTC wall clock time t is t minus the local UTC offset.                    *)
NaiveTimestamp(t, offset) == t - offset

(* str(user_id) *)
str(user_id) == <<"str", user_id>>

(* timedelta added to now in create_token, by token type *)
Lifetime(token_type) ==
    CASE token_type = "access" -> ACCESS_TOKEN_EXPIRE_MINUTES
      [] token_type = "refresh" -> REFRESH_TOKEN_EXPIRE_DAYS * 24 * 60
      [] token_type = "email_verification" -> EMAIL_VERIFICATION_EXPIRE_HOURS * 60
      [] token_type = "password_reset" -> PASSWORD_RESET_EXPIRE_HOURS * 60
      [] token_type = "mfa" -> MFA_TOKEN_EXPIRE_MINUTES
      [] OTHER -> 15

(* The RS256 key pair of CryptoService *)
PrivateKey == "jwt_private.pem"
PublicKey == "jwt_public.pem"
PrivateOf(public_key) == IF public_key = PublicKey THEN PrivateKey ELSE "unknown"

(* jwt.encode(payload, private_key, algorithm="RS256") *)
Sign(private_key, payload) == <<private_key, payload>>
jwt_encode(payload, private_key) ==
    [alg |-> "RS256", payload |-> payload, sig |-> Sign(private_key, payload)]

(* payload.update(extra_claims): keys of extra_claims replace those of payload *)
Update(payload, extra_claims) ==
    [k \in DOMAIN payload \cup DOMAIN extra_claims |->
        IF k \in DOMAIN extra_claims THEN extra_claims[k] ELSE payload[k]]

(* The payload of create_token before the optional claims *)
BasePayload(user_id, token_type, t, offset) ==
    [ sub  |-> str(user_id),
      iat  |-> NaiveTimestamp(t, offset),
      exp  |-> NaiveTimestamp(t, offset) + Lifetime(token_type),
      iss  |-> "ai-trading-platform",
      aud  |-> "api",
      type |-> token_type,
      nbf  |-> NaiveTimestamp(t, offset) ]

(* create_token; session_id, jti, extra_claims are None or Some(value) *)
create_token(user_id, token_type, session_id, jti, extra_claims, t, offset) ==
    LET p0 == BasePayload(user_id, token_type, t, offset)
        p1 == IF session_id # None THEN p0 @@ ("sid" :> session_id[1]) ELSE p0
        p2 == IF jti # None THEN p1 @@ ("jti" :> jti[1]) ELSE p1
        p3 == IF extra_claims # None THEN Update(p2, extra_claims[1]) ELSE p2
    IN jwt_encode(p3, PrivateKey)

(* jwt.decode(token, public_key, algorithms=["RS256"], audience="api",      *)
(* issuer="ai-trading-platform") at the true UTC time t: the exception it   *)
(* raises, or "ok".  ExpiredSignatureError is "expired"; every other        *)
(* failure is a subclass of InvalidTokenError.                              *)
jwt_decode(token, public_key, t) ==
    LET p == token.payload IN
    IF token.alg = "undecodable" THEN "DecodeError"
    ELSE IF token.alg # "RS256" THEN "InvalidAlgorithmError"
    ELSE IF token.sig # Sign(PrivateOf(public_key), p) THEN "InvalidSignatureError"
    ELSE IF "iat" \in DOMAIN p /\ p["iat"] > t THEN "ImmatureSignatureError"
    ELSE IF "nbf" \in DOMAIN p /\ p["nbf"] > t THEN "ImmatureSignatureError"
    ELSE IF "exp" \in DOMAIN p /\ p["exp"] <= t THEN "ExpiredSignatureError"
    ELSE IF "iss" \notin DOMAIN p THEN "MissingRequiredClaimError"
    ELSE IF p["iss"] # "ai-trading-platform" THEN "InvalidIssuerError"
    ELSE IF "aud" \notin DOMAIN p THEN "MissingRequiredClaimError"
    ELSE IF p["aud"] # "api" THEN "InvalidAudienceError"
    ELSE "ok"

(* A type check that accepts every type tag, which C11_TypeConfusion tells  *)
(* apart from TypeMatches                                                   *)
TypeMatches_any(payload, expected_type) == TRUE

(* The type check of verify_token: payload.get("type") != expected_type.value *)
TypeMatches(payload, expected_type) ==
    "type" \in DOMAIN payload /\ payload["type"] = expected_type

(* A verify_token with one detail for every failure, which                 *)
(* C32_ExpiryDistinguished tells apart from verify_token                   *)
verify_token_one_outcome(token, expected_type, t) ==
    IF jwt_decode(token, PublicKey, t) = "ok" /\ TypeMatches(token.payload, expected_type)
    THEN [outcome |-> "ok", payload |-> Some(token.payload)]
    ELSE [outcome |-> "Invalid token", payload |-> None]

(* verify_token: the claims, or the detail of the HTTPException(401) *)
verify_token(token, expected_type, t) ==
    LET e == jwt_decode(token, PublicKey, t) IN
    IF e = "ExpiredSignatureError"
    THEN [outcome |-> "Token has expired", payload |-> None]
    ELSE IF e # "ok"
    THEN [outcome |-> "Invalid token", payload |-> None]
    ELSE IF ~TypeMatches(token.payload, expected_type)
    THEN [outcome |-> "Invalid token", payload |-> None]
    ELSE [outcome |-> "ok", payload |-> Some(token.payload)]

(* auth_service.JWTService.create_access_token: no nbf claim, sid and jti  *)
(* always present                                                          *)
create_access_token(user_id, session_id, jti, t, offset) ==
    jwt_encode([ sub  |-> str(user_id),
                 sid  |-> session_id,
                 jti  |-> jti,
                 iat  |-> NaiveTimestamp(t, offset),
                 exp  |-> NaiveTimestamp(t, offset) + ACCESS_TOKEN_EXPIRE_MINUTES,
                 iss  |-> "ai-trading-platform",
                 aud  |-> "api",
                 type |-> "access" ],
               PrivateKey)

(* auth_service.JWTService.verify_access_token: the claims, or the detail  *)
(* of the HTTPException(401)                                               *)
verify_access_token(token, t) ==
    LET e == jwt_decode(token, PublicKey, t) IN
    IF e = "ExpiredSignatureError"
    THEN [outcome |-> "Access token expired", payload |-> None]
    ELSE IF e # "ok"
    THEN [outcome |-> "Invalid access token", payload |-> None]
    ELSE IF ~TypeMatches(token.payload, "access")
    THEN [outcome |-> "Invalid access token", payload |-> None]
    ELSE [outcome |-> "ok", payload |-> Some(token.payload)]

InitJWT ==
    /\ impl = "enhanced"
    /\ InitAuth
    /\ tz \in TzOffsets
    /\ clock = 0
    /\ jwt = NoJwt
    /\ verdict = NoVerdict
    /\ InitOtherIdle

(* A caller mints a token *)
CreateToken(user_id, token_type, session_id, jti) ==
    /\ jwt' = [ minted |-> TRUE, minted_at |-> clock, by |-> "create_token",
                user_id |-> user_id, type |-> token_type,
                session_id |-> session_id, jti |-> jti, extra_claims |-> None,
                token |-> create_token(user_id, token_type, session_id, jti, None,
                                       clock, tz) ]
    /\ verdict' = NoVerdict
    /\ UNCHANGED <<tz, clock, authVars, concVars, otherVars>>

(* A caller verifies the token last minted *)
VerifyToken(expected_type) ==
    /\ jwt.minted
    /\ LET r == verify_token(jwt.token, expected_type, clock) IN
       verdict' = [ outcome |-> r.outcome, payload |-> r.payload,
                    expected |-> expected_type, at |-> clock, by |-> "verify_token" ]
    /\ UNCHANGED <<tz, clock, jwt, authVars, concVars, otherVars>>

(* A caller of the auth_service JWTService mints an access token *)
CreateAccessToken(user_id, session_id, jti) ==
    /\ jwt' = [ minted |-> TRUE, minted_at |-> clock, by |-> "create_access_token",
                user_id |-> user_id, type |-> "access",
                session_id |-> Some(session_id), jti |-> Some(jti),
                extra_claims |-> None,
                token |-> create_access_token(user_id, session_id, jti, clock, tz) ]
    /\ verdict' = NoVerdict
    /\ UNCHANGED <<tz, clock, authVars, concVars, otherVars>>

(* A caller verifies the token last minted with verify_access_token; both  *)
(* services sign with the key pair of keys/jwt_private.pem                 *)
VerifyAccessToken ==
    /\ jwt.minted
    /\ LET r == verify_access_token(jwt.token, clock) IN
       verdict' = [ outcome |-> r.outcome, payload |-> r.payload,
                    expected |-> "access", at |-> clock, by |-> "verify_access_token" ]
    /\ UNCHANGED <<tz, clock, jwt, authVars, concVars, otherVars>>

ClockTick(d) ==
    /\ clock + d <= MaxClock
    /\ clock' = clock + d
    /\ UNCHANGED <<tz, jwt, verdict, authVars, concVars, otherVars>>

NextJWT ==
    \/ \E u \in Users, ty \in TokenType, sid \in {None, Some(1)}, j \in {None, Some(1)} :
            CreateToken(u, ty, sid, j)
    \/ \E ty \in TokenType : VerifyToken(ty)
    \/ \E u \in Users : CreateAccessToken(u, 1, 1)
    \/ VerifyAccessToken
    \/ \E d \in ClockSteps : ClockTick(d)

SpecJWT == InitJWT /\ [][NextJWT]_vars

----------------------------------------------------------------------------
(* Tokens that the service did not mint as presented.  A client presents    *)
(* the token last minted after changing it: a string that is no JWT, a      *)
(* signature made with another key, or claims signed by a holder of the     *)
(* service's key for another audience or under another issuer name.         *)

TamperKinds == {"malformed", "bad_signature", "wrong_audience", "wrong_issuer"}

Tampered(token, kind) ==
    CASE kind = "malformed" ->
            [alg |-> "undecodable", payload |-> token.payload, sig |-> token.sig]
      [] kind = "bad_signature" ->
            [token EXCEPT !.sig = Sign("attacker.pem", token.payload)]
      [] kind = "wrong_audience" ->
            jwt_encode([token.payload EXCEPT !["aud"] = "web"], PrivateKey)
      [] kind = "wrong_issuer" ->
            jwt_encode([token.payload EXCEPT !["iss"] = "someone-else"], PrivateKey)

(* The token that the last verification was given *)
Presented ==
    IF "tampered" \in DOMAIN verdict THEN Tampered(jwt.token, verdict.tampered)
    ELSE jwt.token

(* A caller verifies a changed token with verify_token or, for the          *)
(* auth_service JWTService, verify_access_token                             *)
VerifyTampered(kind, expected_type, by) ==
    /\ jwt.minted
    /\ \E r \in {IF by = "verify_token"
                  THEN verify_token(Tampered(jwt.token, kind), expected_type, clock)
                  ELSE verify_access_token(Tampered(jwt.token, kind), clock)} :
          verdict' = [ outcome |-> r.outcome, payload |-> r.payload,
                       expected |-> expected_type, at |-> clock, by |-> by,
                       tampered |-> kind ]
    /\ UNCHANGED <<tz, clock, jwt, authVars, concVars, otherVars>>

NextVerify ==
    \/ \E ty \in TokenType : CreateToken(1, ty, Some(1), Some(1))
    \/ \E ty \in TokenType : VerifyToken(ty)
    \/ CreateAccessToken(1, 1, 1)
    \/ VerifyAccessToken
    \/ \E k \in TamperKinds, ty \in {"access", "refresh"} :
            VerifyTampered(k, ty, "verify_token")
    \/ \E k \in TamperKinds : VerifyTampered(k, "access", "verify_access_token")
    \/ \E d \in ClockSteps : ClockTick(d)

SpecVerify == InitJWT /\ [][NextVerify]_vars

----------------------------------------------------------------------------
(* Tokens minted with extra_claims.  The dictionaries a caller may pass:    *)
(* a claim of its own, or keys that create_token has already set.           *)

ExtraClaims ==
    { [role |-> "admin"],
      [type |-> "access"],
      [type |-> "password_reset"],
      [sub |-> str(2)],
      [type |-> "refresh", sub |-> str(2)] }

(* A caller mints a token and passes extra_claims *)
CreateTokenWith(user_id, token_type, extra_claims) ==
    /\ jwt' = [ minted |-> TRUE, minted_at |-> clock, by |-> "create_token",
                user_id |-> user_id, type |-> token_type,
                session_id |-> None, jti |-> None, extra_claims |-> Some(extra_claims),
                token |-> create_token(user_id, token_type, None, None,
                                       Some(extra_claims), clock, tz) ]
    /\ verdict' = NoVerdict
    /\ UNCHANGED <<tz, clock, authVars, concVars, otherVars>>

NextClaims ==
    \/ \E ty \in TokenType, e \in ExtraClaims : CreateTokenWith(1, ty, e)
    \/ \E ty \in TokenType : VerifyToken(ty)
    \/ \E d \in ClockSteps : ClockTick(d)

SpecClaims == InitJWT /\ [][NextClaims]_vars
----------------------------------------------------------------------------
(* The rate limiter driven by sequential callers.  One manager with one    *)
(* limit (passed as custom_limit on every call); the Redis server may be    *)
(* reachable or not and may change while the manager runs.                  *)

Identifiers == {"a", "b"}
LimitTypes == {"auth_login"}
(* limit.requests and limit.window_seconds of the limits explored *)
Limits == {<<1, 2>>, <<2, 2>>}
RedisUrls == {None, Some("redis://localhost:6379")}

Others == <<jwtVars, authVars, concVars, acctVars, pwVars, keyVars>>

InitRL ==
    /\ impl = "enhanced"
    /\ InitAuth
    /\ InitJwtIdle
    /\ \E url \in RedisUrls, l \in Limits, st \in Strategies :
          manager = RateLimitManager(url, RateLimit(l[1], l[2], st))
    /\ \E up \in BOOLEAN : redis = RedisServer(up)
    /\ manager.use_redis \/ ~redis.up
    /\ InitRlStores
    /\ InitAcctIdle
    /\ InitPwIdle
    /\ InitKeyIdle

(* await rate_limiter.initialize() at application startup *)
Initialize ==
    /\ rlresult = NoRlResult
    /\ manager.use_redis
    /\ manager' = initialize(manager, redis)
    /\ manager' # manager
    /\ UNCHANGED <<memory_limiter, redis, rltime, rlresult, rlhist, rlpc, Others>>

(* The Redis server becomes unreachable, or reachable again.  A limiter    *)
(* that never connected raises whatever the server does.                    *)
RedisFlip ==
    /\ manager.use_redis
    /\ manager.connected
    /\ redis' = [redis EXCEPT !.up = ~redis.up]
    /\ UNCHANGED <<manager, memory_limiter, rltime, rlresult, rlhist, rlpc, Others>>

(* The number of checks made so far, over all keys *)
RECURSIVE SumLen(_, _)
SumLen(d, ks) ==
    IF ks = {} THEN 0
    ELSE LET k == CHOOSE x \in ks : TRUE IN Len(d[k]) + SumLen(d, ks \ {k})
ChecksMade == SumLen(rlhist, DOMAIN rlhist)

(* What the history keeps of a check *)
Checked(c, t) ==
    [at |-> t, allowed |-> c.result.allowed, remaining |-> c.result.remaining,
     retry_after |-> c.result.retry_after, backend |-> c.backend]

(* One call of rate_limiter.check_rate_limit *)
Check(identifier, limit_type) ==
    LET key == RateLimitKey(identifier, limit_type)
        c == check_rate_limit(manager, memory_limiter, redis, identifier,
                              limit_type, rltime)
    IN /\ ChecksMade < MaxChecks
       /\ memory_limiter' = c.m
       /\ redis' = c.r
       /\ rlresult' = [made |-> TRUE, key |-> key, result |-> c.result,
                       backend |-> c.backend, at |-> rltime]
       /\ rlhist' = Put(rlhist, key, Append(Get(rlhist, key, <<>>), Checked(c, rltime)))
       /\ UNCHANGED <<manager, rltime, rlpc, Others>>

RlTick ==
    /\ rltime < MaxRlTime
    /\ rltime' = rltime + 1
    /\ UNCHANGED <<manager, memory_limiter, redis, rlresult, rlhist, rlpc, Others>>

NextRL ==
    \/ Initialize
    \/ RedisFlip
    \/ \E i \in Identifiers, ty \in LimitTypes : Check(i, ty)
    \/ RlTick

SpecRL == InitRL /\ [][NextRL]_vars

----------------------------------------------------------------------------
(* The rate limiter under concurrent callers of one event loop, all on one *)
(* key.  The memory limiter never awaits, so its check is one step.  The    *)
(* Redis limiter awaits every command: a token bucket check is the HMGET    *)
(* and, later, the HSET computed from what the HMGET returned; a sliding    *)
(* window check is the pipeline (one MULTI/EXEC) and, later, its ZREM; a    *)
(* fixed window check decides on its INCR alone.  Redis stays reachable.    *)

ConcIdentifier == "a"
ConcKey == RateLimitKey(ConcIdentifier, "auth_login")

InitRLConc ==
    /\ impl = "enhanced"
    /\ InitAuth
    /\ InitJwtIdle
    /\ \E url \in RedisUrls, l \in Limits, st \in Strategies :
          manager = initialize(RateLimitManager(url, RateLimit(l[1], l[2], st)),
                               RedisServer(TRUE))
    /\ redis = RedisServer(TRUE)
    /\ InitRlStores
    /\ InitAcctIdle
    /\ InitPwIdle
    /\ InitKeyIdle

InFlight == Cardinality({p \in Procs : rlpc[p].st # "idle"})
MayStart(p) == rlpc[p].st = "idle" /\ ChecksMade + InFlight < MaxChecks

(* The caller gets its result *)
Deliver(c, t) ==
    /\ rlresult' = [made |-> TRUE, key |-> ConcKey, result |-> c.result,
                    backend |-> c.backend, at |-> t]
    /\ rlhist' = Put(rlhist, ConcKey, Append(Get(rlhist, ConcKey, <<>>), Checked(c, t)))

(* A check that completes without yielding to other callers *)
RlConcCheck(p) ==
    /\ MayStart(p)
    /\ ~manager.use_redis \/ manager.limit.strategy = "fixed_window"
    /\ \E c \in {check_rate_limit(manager, memory_limiter, redis, ConcIdentifier,
                                  "auth_login", rltime)} :
          /\ memory_limiter' = c.m
          /\ redis' = c.r
          /\ Deliver(c, rltime)
    /\ UNCHANGED <<manager, rltime, rlpc, Others>>

(* RedisRateLimiter._token_bucket_check up to the return of hmget *)
RlConcHmget(p) ==
    /\ MayStart(p)
    /\ manager.use_redis /\ manager.limit.strategy = "token_bucket"
    /\ rlpc' = [rlpc EXCEPT ![p] = [st |-> "hmget", now |-> rltime,
                                    got |-> redis_hmget(redis, ConcKey)]]
    /\ UNCHANGED <<manager, memory_limiter, redis, rltime, rlresult, rlhist, Others>>

(* RedisRateLimiter._sliding_window_check up to the return of pipe.execute *)
RlConcPipeline(p) ==
    /\ MayStart(p)
    /\ manager.use_redis /\ manager.limit.strategy = "sliding_window"
    /\ \E q \in {redis_sliding_pipeline(redis, ConcKey, manager.limit, rltime)} :
          /\ redis' = q.r
          /\ rlpc' = [rlpc EXCEPT ![p] = [st |-> "executed", now |-> rltime,
                                          got |-> q.current_requests]]
    /\ UNCHANGED <<manager, memory_limiter, rltime, rlresult, rlhist, Others>>

(* The rest of the Redis check, from what the first command returned *)
RlConcFinish(p) ==
    /\ rlpc[p].st # "idle"
    /\ \E c \in {IF rlpc[p].st = "hmget"
                 THEN redis_token_bucket_finish(redis, ConcKey, manager.limit,
                                                rlpc[p].now, rlpc[p].got)
                 ELSE redis_sliding_finish(redis, ConcKey, manager.limit,
                                           rlpc[p].now, rlpc[p].got)} :
          /\ redis' = c.r
          /\ Deliver([result |-> c.result, backend |-> "redis"], rlpc[p].now)
    /\ rlpc' = [rlpc EXCEPT ![p] = RlIdle]
    /\ UNCHANGED <<manager, memory_limiter, rltime, Others>>

NextRLConc ==
    \/ \E p \in Procs : RlConcCheck(p)
    \/ \E p \in Procs : RlConcHmget(p)
    \/ \E p \in Procs : RlConcPipeline(p)
    \/ \E p \in Procs : RlConcFinish(p)
    \/ RlTick

SpecRLConc == InitRLConc /\ [][NextRLConc]_vars

----------------------------------------------------------------------------
(* Several identifiers and limit types on one manager, memory or a         *)
(* reachable Redis.  The history is kept per caller (identifier and limit   *)
(* type), not per stored key.                                               *)

IsoLimitTypes == {"auth_login", "api_general"}
IsoLimits == {<<1, 2>>}

InitRLIso ==
    /\ impl = "enhanced"
    /\ InitAuth
    /\ InitJwtIdle
    /\ \E url \in RedisUrls, l \in IsoLimits, st \in Strategies :
          manager = initialize(RateLimitManager(url, RateLimit(l[1], l[2], st)),
                               RedisServer(TRUE))
    /\ redis = RedisServer(TRUE)
    /\ InitRlStores
    /\ InitAcctIdle
    /\ InitPwIdle
    /\ InitKeyIdle

Calls(identifier, limit_type) == Get(rlhist, <<identifier, limit_type>>, <<>>)

(* One call of rate_limiter.check_rate_limit(identifier, limit_type, limit) *)
IsoCheck(identifier, limit_type) ==
    /\ ChecksMade < MaxChecks
    /\ \E c \in {check_rate_limit(manager, memory_limiter, redis, identifier,
                                  limit_type, rltime)} :
          /\ memory_limiter' = c.m
          /\ redis' = c.r
          /\ rlresult' = [made |-> TRUE, key |-> RateLimitKey(identifier, limit_type),
                          identifier |-> identifier, limit_type |-> limit_type,
                          result |-> c.result, backend |-> c.backend, at |-> rltime]
          /\ rlhist' = Put(rlhist, <<identifier, limit_type>>,
                           Append(Calls(identifier, limit_type), Checked(c, rltime)))
    /\ UNCHANGED <<manager, rltime, rlpc, Others>>

NextRLIso ==
    \/ \E i \in Identifiers, ty \in IsoLimitTypes : IsoCheck(i, ty)
    \/ RlTick

SpecRLIso == InitRLIso /\ [][NextRLIso]_vars

----------------------------------------------------------------------------
(* Login attempts, one at a time, against the global rate_limiter (memory  *)
(* backend, the default auth_login limit).  One account is registered, one  *)
(* email is unknown (SpecAnyLogin).                                         *)

Registered == {"alice@example.com"}
Emails == Registered \cup {"nobody@example.com"}
Passwords == {"Correct123!", "Wrong123!"}
ClientIps == {"127.0.0.1"}

HalfLockout == (LOCKOUT_DURATION_MINUTES * 60) \div 2

NotLogin == <<jwtVars, authVars, concVars, manager, redis, rlresult, rlhist, rlpc,
              pwVars, keyVars>>

(* The registered user logged in once before: one session, one refresh token *)
LoggedIn(i) ==
    IF i = "enhanced"
    THEN create_auth_tokens(Db(<<>>, <<>>), 1, FALSE, 0).db
    ELSE create_auth_tokens_v2(Db(<<>>, <<>>), 1, 0).db

InitLogin ==
    /\ impl \in Impls
    /\ now = 0
    /\ sessions = LoggedIn(impl).s
    /\ tokens = LoggedIn(impl).t
    /\ last = NoResult
    /\ rotations = {}
    /\ pc = [p \in Procs |-> Idle]
    /\ InitJwtIdle
    /\ manager = RateLimitManager(None, AuthLoginLimit)
    /\ redis = RedisServer(FALSE)
    /\ InitRlStores
    /\ accounts = [e \in Registered |-> User(hash_password("Correct123!"))]
    /\ login = NoLogin
    /\ streak = [e \in Emails |-> 0]
    /\ InitPwIdle
    /\ InitKeyIdle

(* The attempts on an account whose password was checked and refused, in   *)
(* a row since the last authenticated one                                   *)
Streak(n, out) ==
    IF out.status = 200 THEN 0
    ELSE IF out.verified /\ out.status = 401 THEN n + 1
    ELSE n

(* One call of authenticate_user *)
Authenticate(client_ip, email, password) ==
    \E out \in {authenticate_user(impl, accounts, manager, memory_limiter, redis,
                                   client_ip, email, password, rltime)} :
       /\ accounts' = out.accounts
       /\ memory_limiter' = out.m
       /\ login' = [made |-> TRUE, email |-> email,
                    client_ip |-> client_ip, password |-> password, at |-> rltime,
                    status |-> out.status, detail |-> out.detail, user |-> out.user,
                    limited |-> out.limited, verified |-> out.verified,
                    before |-> FindUser(accounts, email)]
       /\ streak' = [streak EXCEPT ![email] = Streak(streak[email], out)]
       /\ UNCHANGED <<rltime, NotLogin>>

(* Time passes, half a lockout at a time *)
LoginTick ==
    /\ rltime < MaxLoginTicks * HalfLockout
    /\ rltime' = rltime + HalfLockout
    /\ UNCHANGED <<memory_limiter, accounts, login, streak, NotLogin>>

(* The session may be refreshed once or logged out between the attempts *)
NextLogin ==
    \/ \E ip \in ClientIps, e \in Registered, p \in Passwords : Authenticate(ip, e, p)
    \/ LoginTick
    \/ \E raw \in 1..Len(tokens) : Refresh(raw) /\ Len(tokens') <= 2
    \/ \E sid \in 1..Len(sessions) : Logout(sid, FALSE)

SpecLogin == InitLogin /\ [][NextLogin]_vars

(* Login attempts with registered and unknown emails *)
NextAnyLogin ==
    \/ \E ip \in ClientIps, e \in Emails, p \in Passwords : Authenticate(ip, e, p)
    \/ LoginTick

SpecAnyLogin == InitLogin /\ [][NextAnyLogin]_vars

(* Login attempts on one account across a whole lockout, a quarter of a     *)
(* lockout at a time: shorter than the window of the login rate limit       *)
QuarterLockout == (LOCKOUT_DURATION_MINUTES * 60) \div 4

LockoutTick ==
    /\ rltime < MaxLockoutTicks * QuarterLockout
    /\ rltime' = rltime + QuarterLockout
    /\ UNCHANGED <<memory_limiter, accounts, login, streak, NotLogin>>

NextLockout ==
    \/ \E ip \in ClientIps, e \in Registered, p \in Passwords : Authenticate(ip, e, p)
    \/ LockoutTick

SpecLockout == InitLogin /\ [][NextLockout]_vars

----------------------------------------------------------------------------
(* Password hashing and verification on their own.  The password column   *)
(* holds what hash_password wrote, what api/auth.py wrote (bcrypt), or a    *)
(* string that is no hash at all.                                           *)

PlainPasswords == {"TestPassword123!", "WrongPassword", ""}
Malformed == {<<"malformed", "">>, <<"malformed", "$argon2id$v=19$">>}

NotPw == <<authVars, concVars, jwtVars, rlVars, acctVars, keyVars>>

InitPw ==
    /\ impl \in Impls
    /\ InitAuth
    /\ InitJwtIdle
    /\ InitRlIdle
    /\ InitAcctIdle
    /\ InitPwIdle
    /\ InitKeyIdle

(* crypto.hash_password(password), the result stored *)
HashPassword(password) ==
    /\ stored' = stored \cup {hash_password(password)}
    /\ UNCHANGED <<pwcheck, NotPw>>

(* A row written by api/auth.py, or a damaged one *)
StoreForeign(h) ==
    /\ stored' = stored \cup {h}
    /\ UNCHANGED <<pwcheck, NotPw>>

(* crypto.verify_password(password, password_hash) on a stored hash *)
VerifyPassword(password, password_hash) ==
    /\ pwcheck' = [made |-> TRUE, password |-> password,
                   password_hash |-> password_hash,
                   raised |-> verify_password(impl, password, password_hash).raised,
                   value |-> verify_password(impl, password, password_hash).value]
    /\ UNCHANGED <<stored, NotPw>>

NextPw ==
    \/ \E p \in PlainPasswords : HashPassword(p)
    \/ \E h \in Malformed \cup {legacy_hash(p) : p \in PlainPasswords} : StoreForeign(h)
    \/ \E p \in PlainPasswords, h \in stored : VerifyPassword(p, h)

SpecPw == InitPw /\ [][NextPw]_vars

----------------------------------------------------------------------------
(* Key generation.  Several processes (the workers of one deployment)      *)
(* construct their CryptoService while no key file exists.  The existence   *)
(* test, the generation and each file write are separate steps; nothing     *)
(* locks the files.  A key generated by process p is p's own.               *)

NotKeys == <<authVars, concVars, jwtVars, rlVars, acctVars, pwVars>>

(* rsa.generate_private_key(...) and private_key.public_key() *)
generate_private_key(p) == <<"private", p>>
public_key(private_key) == <<"public", private_key[2]>>

(* not PRIVATE_KEY_PATH.exists() or not PUBLIC_KEY_PATH.exists() *)
KeysMissing(files) == files.private = None \/ files.public = None

InitKeys ==
    /\ impl \in Impls
    /\ InitAuth
    /\ InitJwtIdle
    /\ InitRlIdle
    /\ InitAcctIdle
    /\ InitPwIdle
    /\ keyfiles = [private |-> None, public |-> None]
    /\ kpc = [p \in Procs |-> [KeyIdle EXCEPT !.st = "start"]]

(* _ensure_keys_exist: the existence test *)
KeysCheck(p) ==
    /\ kpc[p].st = "start"
    /\ kpc' = [kpc EXCEPT ![p].st = IF KeysMissing(keyfiles) THEN "generate"
                                     ELSE "done"]
    /\ UNCHANGED <<keyfiles, NotKeys>>

(* _ensure_keys_exist: generate and serialize the pair *)
KeysGenerate(p) ==
    /\ kpc[p].st = "generate"
    /\ kpc' = [kpc EXCEPT ![p].st = "write_private", ![p].generated = TRUE,
                          ![p].key = Some(generate_private_key(p))]
    /\ UNCHANGED <<keyfiles, NotKeys>>

(* _ensure_keys_exist: write the private key file *)
KeysWritePrivate(p) ==
    /\ kpc[p].st = "write_private"
    /\ keyfiles' = [keyfiles EXCEPT !.private = kpc[p].key]
    /\ kpc' = [kpc EXCEPT ![p].st = "write_public"]
    /\ UNCHANGED NotKeys

(* _ensure_keys_exist: write the public key file *)
KeysWritePublic(p) ==
    /\ kpc[p].st = "write_public"
    /\ keyfiles' = [keyfiles EXCEPT !.public = Some(public_key(kpc[p].key[1]))]
    /\ kpc' = [kpc EXCEPT ![p].st = "done"]
    /\ UNCHANGED NotKeys

(* get_private_key: load and cache; a missing file raises *)
GetPrivateKey(p) ==
    /\ kpc[p].st = "done"
    /\ kpc[p].private_key = None
    /\ keyfiles.private # None
    /\ kpc' = [kpc EXCEPT ![p].private_key = keyfiles.private]
    /\ UNCHANGED <<keyfiles, NotKeys>>

(* get_public_key: load and cache; a missing file raises *)
GetPublicKey(p) ==
    /\ kpc[p].st = "done"
    /\ kpc[p].public_key = None
    /\ keyfiles.public # None
    /\ kpc' = [kpc EXCEPT ![p].public_key = keyfiles.public]
    /\ UNCHANGED <<keyfiles, NotKeys>>

NextKeys ==
    \E p \in Procs :
        \/ KeysCheck(p)
        \/ KeysGenerate(p)
        \/ KeysWritePrivate(p)
        \/ KeysWritePublic(p)
        \/ GetPrivateKey(p)
        \/ GetPublicKey(p)

SpecKeys == InitKeys /\ [][NextKeys]_vars

----------------------------------------------------------------------------
(* Properties *)

DB == Db(sessions, tokens)

(* The raw token `raw` would be accepted by the refresh operation now *)
Redeemable(raw) ==
    IF impl = "enhanced" THEN RefreshLookup(DB, raw, now) # {}
    ELSE RotateLookup(DB, raw, now) # {}

(* The raw tokens that were redeemed, and the successors of one *)
Redeemed == {p[1] : p \in rotations}
Successors(raw) == {p[2] : p \in {q \in rotations : q[1] = raw}}

(* The stored records of a raw token, and the refresh tokens of a session *)
RecordsOf(raw) == {i \in DOMAIN tokens : tokens[i].token_hash = hash_token(raw)}
TokensOfSession(sid) == {k \in DOMAIN tokens : tokens[k].session_id = sid}
Revoked(row) == ~row.is_active /\ row.revoked_at # None

(* The last request presented an already redeemed refresh token and failed *)
ReplayRejected ==
    /\ last.op = "refresh"
    /\ ~last.ok
    /\ last.arg \in Redeemed

(* C1: a refresh token that was redeemed once is never redeemed again: it   *)
(* has exactly one successor, and the refresh operation no longer accepts   *)
(* it.                                                                      *)
C1_SingleUse ==
    \A raw \in Redeemed :
        /\ Cardinality(Successors(raw)) = 1
        /\ ~Redeemable(raw)

(* A redeemed token was presented a second time and was refused *)
C1_Witness ==
    /\ ReplayRejected
    /\ Cardinality(Successors(last.arg)) = 1

(* C2: (auth_service) when a refresh request presents an already rotated    *)
(* token and fails, then once the request has finished the session of that  *)
(* token and every refresh token of the session are revoked in the stored   *)
(* state, so the successor is refused.                                      *)
C2_ReuseRevokesChainV2 ==
    (impl = "v2" /\ ReplayRejected) =>
        \A i \in RecordsOf(last.arg) :
            /\ \A j \in DOMAIN sessions :
                    sessions[j].session_id = tokens[i].session_id
                        => Revoked(sessions[j])
            /\ \A k \in TokensOfSession(tokens[i].session_id) : Revoked(tokens[k])
            /\ \A succ \in Successors(last.arg) : ~Redeemable(succ)

(* C3: (auth_enhanced) when refresh_user_tokens is presented an already     *)
(* rotated token, the session of its record and every refresh token of the  *)
(* chain are revoked, so the successor is refused.                          *)
C3_ReuseRevokesChainEnhanced ==
    (impl = "enhanced" /\ ReplayRejected) =>
        /\ \A i \in RecordsOf(last.arg) :
              /\ \A j \in DOMAIN sessions :
                    sessions[j].session_id = tokens[i].session_id
                        => Revoked(sessions[j])
              /\ \A k \in TokensOfSession(tokens[i].session_id) : Revoked(tokens[k])
        /\ \A succ \in Successors(last.arg) :
              /\ ~Redeemable(succ)
              /\ \A k \in RecordsOf(succ) : Revoked(tokens[k])

(* C4: of concurrent refresh requests presenting the same token at most one *)
(* succeeds: no token ever has two successors, let alone two redeemable     *)
(* ones.                                                                    *)
C4_AtMostOneConcurrentWinner ==
    \A raw \in 1..Len(tokens) :
        Cardinality({succ \in Successors(raw) : Redeemable(succ)}) <= 1

(* The sessions of user u that get_active_session returns *)
ActiveSessionsOf(u) ==
    {i \in DOMAIN sessions :
        /\ sessions[i].user_id = u
        /\ get_active_session(DB, sessions[i].session_id, now) # None}

(* C5: after create_session for a user (here through login) the user has at *)
(* most MAX_SESSIONS_PER_USER active sessions.                              *)
C5_SessionCap ==
    last.op = "login" =>
        Cardinality(ActiveSessionsOf(last.arg)) <= MAX_SESSIONS_PER_USER

(* C6: get_current_user does not authenticate a request whose access token  *)
(* verified when the session named by its sid claim is not active (revoked  *)
(* or expired).                                                             *)
C6_SessionGate ==
    (last.op = "get_current_user" /\ last.verify = "valid" /\ last.ok) =>
        /\ last.via = "token"
        /\ get_active_session(DB, last.arg, now) # None

(* A request with a valid token of a revoked session was refused *)
C6_Witness ==
    /\ last.op = "get_current_user"
    /\ last.verify = "valid"
    /\ ~last.ok
    /\ \E i \in DOMAIN sessions :
          /\ sessions[i].session_id = last.arg
          /\ sessions[i].revoked_at # None

(* C7: revoke_session cascades: a revoked session has no refresh token left *)
(* that is active or lacks revoked_at, none of them is redeemable, and      *)
(* after a logout the session is revoked.                                   *)
C7_RevocationCascade ==
    /\ \A i \in DOMAIN sessions :
          sessions[i].revoked_at # None =>
              /\ ~sessions[i].is_active
              /\ \A k \in TokensOfSession(sessions[i].session_id) :
                    /\ Revoked(tokens[k])
                    /\ \A raw \in 1..Len(tokens) :
                          k \in RecordsOf(raw) => ~Redeemable(raw)
    /\ (last.op = "logout" /\ last.ok) =>
          \A i \in DOMAIN sessions :
              sessions[i].session_id = last.arg => Revoked(sessions[i])

(* A logout revoked a session that had a refresh token which was still      *)
(* active until then                                                        *)
C7_Witness ==
    /\ last.op = "logout"
    /\ last.ok
    /\ \E k \in TokensOfSession(last.arg) :
          /\ tokens[k].revoked_at = Some(now)
          /\ tokens[k].used_at = None
          /\ tokens[k].expires_at > now

(* C8: get_active_session returns the session exactly when a session with   *)
(* that id exists, its revoked_at is unset and now is strictly before its   *)
(* expires_at; it returns the session right after create_session and none   *)
(* after revoke_session.                                                    *)
C8_ActiveSessionIff ==
    /\ \A sid \in 1..(Len(sessions) + 1) :
          LET r == get_active_session(DB, sid, now) IN
          /\ (r # None) <=>
                \E i \in DOMAIN sessions :
                    /\ sessions[i].session_id = sid
                    /\ sessions[i].revoked_at = None
                    /\ now < sessions[i].expires_at
          /\ r # None => r[1].session_id = sid
    /\ last.op = "login" => get_active_session(DB, last.out, now) # None
    /\ (last.op = "logout" /\ last.ok) => get_active_session(DB, last.arg, now) = None

(* A session that was never revoked is at the very instant of its expiry    *)
(* and is not returned, next to one that is returned                        *)
C8_Witness ==
    /\ \E i \in DOMAIN sessions :
          /\ sessions[i].revoked_at = None
          /\ sessions[i].expires_at = now
          /\ get_active_session(DB, sessions[i].session_id, now) = None
    /\ \E i \in DOMAIN sessions :
          get_active_session(DB, sessions[i].session_id, now) # None

(* C9: session state is monotone.  In every step every stored session stays *)
(* stored, a set revoked_at stays set, expires_at is not extended, and a    *)
(* session that is not active (revoked or expired) is not active afterwards *)
C9_SessionMonotone ==
    [][\A i \in DOMAIN sessions :
          /\ i \in DOMAIN sessions'
          /\ sessions'[i].session_id = sessions[i].session_id
          /\ sessions[i].revoked_at # None
                => sessions'[i].revoked_at # None
          /\ sessions'[i].expires_at <= sessions[i].expires_at
          /\ get_active_session(DB, sessions[i].session_id, now) = None
                => get_active_session(Db(sessions', tokens'),
                                      sessions[i].session_id, now') = None]_vars

(* A request with a valid token ran on a session that had been revoked at  *)
(* an earlier time, while another session of the store has expired         *)
C9_Witness ==
    /\ last.op = "get_current_user"
    /\ last.verify = "valid"
    /\ \E i \in DOMAIN sessions :
          /\ sessions[i].session_id = last.arg
          /\ sessions[i].revoked_at # None
          /\ sessions[i].revoked_at[1] < now
    /\ \E i \in DOMAIN sessions :
          /\ sessions[i].revoked_at = None
          /\ sessions[i].expires_at <= now

(* C10: a token minted by create_token(user_id, T, session_id, jti) and     *)
(* verified with expected type T before its lifetime has passed is accepted *)
(* and its claims carry sub = str(user_id), type = T and the given sid and  *)
(* jti.                                                                     *)
C10_RoundTrip ==
    (/\ verdict.outcome # "none"
     /\ jwt.by = "create_token"
     /\ verdict.by = "verify_token"
     /\ verdict.expected = jwt.type
     /\ verdict.at < jwt.minted_at + Lifetime(jwt.type)) =>
        /\ verdict.outcome = "ok"
        /\ verdict.payload[1]["sub"] = str(jwt.user_id)
        /\ verdict.payload[1]["type"] = jwt.type
        /\ jwt.session_id # None => verdict.payload[1]["sid"] = jwt.session_id[1]
        /\ jwt.jti # None => verdict.payload[1]["jti"] = jwt.jti[1]

(* The verified token is valid in every respect but, possibly, its type:   *)
(* correctly signed, past its iat and nbf, before its exp, right issuer    *)
(* and audience                                                            *)
ValidButForType == jwt_decode(jwt.token, PublicKey, verdict.at) = "ok"

(* C11: type confusion is rejected.  A token minted with type A (and no     *)
(* extra claims) carries the type claim A, and neither verify_token nor     *)
(* verify_access_token accepts a token whose type claim differs from the    *)
(* type it expects, however valid the token is otherwise.                   *)
C11_TypeConfusion ==
    verdict.outcome # "none" =>
        /\ jwt.extra_claims = None => jwt.token.payload["type"] = jwt.type
        /\ jwt.token.payload["type"] # verdict.expected
              => verdict.outcome \in {"Invalid token", "Invalid access token"}
                    \/ ~ValidButForType
        /\ verdict.outcome = "ok" => jwt.token.payload["type"] = verdict.expected

(* An otherwise valid refresh token was presented where an access token is  *)
(* expected and was refused as invalid                                      *)
C11_Witness ==
    /\ verdict.outcome = "Invalid token"
    /\ verdict.by = "verify_token"
    /\ verdict.expected = "access"
    /\ jwt.type = "refresh"
    /\ ValidButForType

(* The checks made so far on a key *)
History(key) == Get(rlhist, key, <<>>)
RlKeys == {RateLimitKey(i, ty) : i \in Identifiers, ty \in LimitTypes}

(* C12: sliding window on the memory backend, fresh key, limit L, window W: *)
(* the k-th check inside the window that the first check opens is allowed   *)
(* and reports remaining = L - k for k <= L, check L + 1 inside it is       *)
(* denied with a positive retry_after, and a check made when every earlier  *)
(* check is older than the window is allowed.                               *)
C12_SlidingWindowBoundary ==
    (manager.limit.strategy = "sliding_window" /\ ~manager.use_redis) =>
        \A key \in RlKeys :
            LET h == History(key)
                L == manager.limit.requests
                W == manager.limit.window_seconds
            IN \A k \in 1..Len(h) :
                  /\ (k <= L /\ h[k].at < h[1].at + W)
                        => h[k].allowed /\ h[k].remaining = L - k
                  /\ (k = L + 1 /\ h[k].at < h[1].at + W)
                        => /\ ~h[k].allowed
                           /\ h[k].retry_after # None
                           /\ h[k].retry_after[1] > 0
                  /\ (\A j \in 1..(k - 1) : h[j].at + W < h[k].at)
                        => h[k].allowed

(* C13: fail open.  check_rate_limit always returns a result, and a check   *)
(* whose backend raised, in particular every check of a manager whose Redis *)
(* backend is configured but not connected, returns allowed = true.         *)
C13_FailOpen ==
    /\ \A key \in RlKeys : \A k \in 1..Len(History(key)) :
          History(key)[k].backend = "fail_open" => History(key)[k].allowed
    /\ rlresult.made =>
          /\ rlresult.backend = "fail_open" =>
                rlresult.result = RateLimitResult(TRUE, manager.limit.requests, None)
          /\ (manager.use_redis /\ ~manager.connected) =>
                rlresult.backend = "fail_open" /\ rlresult.result.allowed

(* A manager with Redis configured but not connected has answered more     *)
(* checks of one key than its limit, all of them allowed                   *)
C13_Witness ==
    /\ rlresult.made
    /\ manager.use_redis
    /\ ~manager.connected
    /\ rlresult.backend = "fail_open"
    /\ Len(History(rlresult.key)) > manager.limit.requests
    /\ \A k \in 1..Len(History(rlresult.key)) : History(rlresult.key)[k].allowed

(* The admitted checks of a key before its k-th that lie inside the window *)
(* ending at the k-th                                                      *)
AdmittedInWindow(key, k) ==
    {j \in 1..(k - 1) :
        /\ History(key)[j].allowed
        /\ History(key)[j].at > History(key)[k].at - manager.limit.window_seconds}

(* C14: backend fallback.  With a Redis URL configured and Redis not        *)
(* reachable (the connect of initialize failed, or a check errors), a check *)
(* is served by the MemoryRateLimiter, so that under the sliding window     *)
(* strategy a key with `limit` admitted checks inside the window is denied. *)
C14_FallbackEnforcesLimit ==
    manager.use_redis =>
        \A key \in RlKeys : \A k \in 1..Len(History(key)) :
            History(key)[k].backend # "redis" =>
                /\ History(key)[k].backend = "memory"
                /\ (/\ manager.limit.strategy = "sliding_window"
                    /\ Cardinality(AdmittedInWindow(key, k)) >= manager.limit.requests)
                      => ~History(key)[k].allowed

----------------------------------------------------------------------------
(* Lockout *)

(* The last login attempt found its account locked *)
AttemptWhileLocked ==
    /\ login.made
    /\ login.before # None
    /\ login.before[1].locked_until # None
    /\ login.before[1].locked_until[1] > login.at

(* Five refused passwords in a row lock the account: the attempt that      *)
(* completes the five sets locked_until a lockout ahead, and it stays set   *)
FiveFailuresLock ==
    \A e \in DOMAIN accounts :
        streak[e] >= LOGIN_ATTEMPTS_LIMIT =>
            /\ accounts[e].locked_until # None
            /\ (login.email = e /\ login.verified /\ login.status = 401) =>
                  accounts[e].locked_until =
                      Some(login.at + LOCKOUT_DURATION_MINUTES * 60)

(* C15 as stated: after 5 consecutive wrong-password attempts the account  *)
(* is locked, and an attempt made before locked_until, even with the        *)
(* correct password, is rejected with HTTP 423 and authenticates nobody.    *)
C15_LockedAttemptGets423 ==
    /\ FiveFailuresLock
    /\ AttemptWhileLocked => login.status = 423 /\ login.user = None

(* C15 amended: after 5 consecutive wrong-password attempts that reached   *)
(* the password check the account is locked, and an attempt made before     *)
(* locked_until, even with the correct password, authenticates nobody and   *)
(* leaves the account as it was; it is rejected with HTTP 423, or with HTTP *)
(* 429 when the login rate limit of the caller is exhausted.                *)
C15_Lockout ==
    /\ FiveFailuresLock
    /\ AttemptWhileLocked =>
          /\ login.user = None
          /\ login.status = IF login.limited THEN 429 ELSE 423
          /\ accounts[login.email] = login.before[1]

(* The account is locked after five refused passwords and the next attempt, *)
(* with the correct password, is rejected as locked                         *)
C15_Witness ==
    /\ AttemptWhileLocked
    /\ login.password = "Correct123!"
    /\ login.status = 423
    /\ streak[login.email] >= LOGIN_ATTEMPTS_LIMIT

----------------------------------------------------------------------------
(* C16: failed_login_attempts of a user decreases only to zero, and only   *)
(* in an authenticate_user call for that user that checked the correct      *)
(* password while the account was not locked; a wrong password, a rejection *)
(* while locked or by the rate limiter, time passing, refresh and logout    *)
(* never decrease it.                                                       *)
C16_ResetOnlyOnSuccess ==
    [][\A e \in DOMAIN accounts :
          accounts'[e].failed_login_attempts < accounts[e].failed_login_attempts =>
              /\ accounts'[e].failed_login_attempts = 0
              /\ login'.made /\ login'.email = e /\ login'.at = rltime
              /\ login'.password = accounts[e].password_hash[2]
              /\ login'.verified /\ login'.status = 200 /\ login'.user = Some(e)
              /\ accounts[e].locked_until # None => accounts[e].locked_until[1] <= rltime
              /\ last' = last]_vars

(* A counter that had reached the limit was reset by a successful login    *)
(* after the lockout elapsed                                                *)
C16_Witness ==
    /\ login.made /\ login.status = 200
    /\ login.before[1].failed_login_attempts >= LOGIN_ATTEMPTS_LIMIT
    /\ accounts[login.email].failed_login_attempts = 0
    /\ last.op = "logout"

----------------------------------------------------------------------------
(* User enumeration *)

(* The users table without the account of this email *)
Without(accts, email) == [e \in DOMAIN accts \ {email} |-> accts[e]]

----------------------------------------------------------------------------
(* C18: verify_password never raises: it returns TRUE when the password    *)
(* is the one the stored hash was made from and FALSE otherwise, a stored   *)
(* string that is no argon2 hash included, in both CryptoService classes.   *)
C18_VerifyNeverRaises ==
    pwcheck.made =>
        /\ ~pwcheck.raised
        /\ pwcheck.value = (pwcheck.password_hash = hash_password(pwcheck.password))

----------------------------------------------------------------------------
(* C19: of the CryptoService initialisers that start with no key files,    *)
(* only one generates and writes the pair, and whenever both files exist    *)
(* the public key file holds the public half of the private key file.       *)
C19_KeyGenerationRaceFree ==
    /\ Cardinality({p \in Procs : kpc[p].generated}) <= 1
    /\ (keyfiles.private # None /\ keyfiles.public # None) =>
          keyfiles.public = Some(public_key(keyfiles.private[1]))

----------------------------------------------------------------------------
(* C20: concurrent checks on one key admit only what some sequential order *)
(* of the same checks admits.  No order admits more than limit.requests     *)
(* checks made at one instant, so two concurrent callers are never both     *)
(* admitted when one admission remains, on either backend, every strategy.  *)
C20_PerKeyAtomicity ==
    \A i \in DOMAIN History(ConcKey) :
        Cardinality({j \in DOMAIN History(ConcKey) :
                        /\ History(ConcKey)[j].allowed
                        /\ History(ConcKey)[j].at = History(ConcKey)[i].at})
            <= manager.limit.requests

----------------------------------------------------------------------------
(* C21: a request whose access token is valid and whose session is active  *)
(* is authenticated (the user is returned) even when the write of           *)
(* update_session_activity fails.                                           *)
C21_StampingBestEffort ==
    (/\ last.op = "get_current_user"
     /\ last.verify = "valid"
     /\ get_active_session(DB, last.arg, now) # None)
    => /\ last.ok
       /\ last.out = get_active_session(DB, last.arg, now)[1].user_id

----------------------------------------------------------------------------
(* Key isolation *)

(* What the stores hold for one caller: its key and its fixed window keys *)
Owned(d, identifier, limit_type) ==
    LET key == RateLimitKey(identifier, limit_type) IN
    [k \in {x \in DOMAIN d : x = key \/ \E n \in 0..rltime : x = WindowKey(key, n)}
        |-> d[k]]
StoredFor(m, r, identifier, limit_type) ==
    << Owned(m.requests, identifier, limit_type),
       Owned(m.token_buckets, identifier, limit_type),
       Owned(r.z, identifier, limit_type),
       Owned(r.h, identifier, limit_type),
       Owned(r.n, identifier, limit_type) >>

(* C22: a check for one (limit type, identifier) changes nothing stored    *)
(* for any other, so the first check of every caller is allowed whatever    *)
(* other identifiers, or the same identifier under another limit type, did. *)
C22_KeyIsolation ==
    /\ [](\A i \in Identifiers, ty \in IsoLimitTypes :
            Len(Calls(i, ty)) >= 1 => Calls(i, ty)[1].allowed)
    /\ [][\A i \in Identifiers, ty \in IsoLimitTypes :
            (rlhist' # rlhist /\ <<rlresult'.identifier, rlresult'.limit_type>> # <<i, ty>>)
            => StoredFor(memory_limiter', redis', i, ty)
                 = StoredFor(memory_limiter, redis, i, ty)]_vars

(* One caller is exhausted, and the same identifier under another limit    *)
(* type and another identifier under the same one were then allowed         *)
C22_Witness ==
    \E i \in Identifiers, ty \in IsoLimitTypes :
    \E j \in Identifiers \ {i}, tz2 \in IsoLimitTypes \ {ty} :
        /\ Len(Calls(i, ty)) >= 2
        /\ ~Calls(i, ty)[Len(Calls(i, ty))].allowed
        /\ Len(Calls(i, tz2)) = 1 /\ Calls(i, tz2)[1].allowed
        /\ Calls(i, tz2)[1].at = Calls(i, ty)[Len(Calls(i, ty))].at
        /\ rlresult.made /\ rlresult.identifier = j /\ rlresult.limit_type = ty
        /\ rlresult.result.allowed


----------------------------------------------------------------------------
(* C23: on every strategy and both backends the retry_after of a result is *)
(* set if and only if the check was denied, and a retry_after that is set   *)
(* is a positive number of seconds.                                         *)
C23_RetryAfterIffDenied ==
    rlresult.made =>
        /\ (rlresult.result.retry_after # None) <=> ~rlresult.result.allowed
        /\ rlresult.result.retry_after # None => rlresult.result.retry_after[1] > 0

----------------------------------------------------------------------------
(* The timestamps stored for the key of the concurrent callers *)
StoredTimestamps ==
    IF manager.use_redis THEN Get(redis.z, ConcKey, {})
    ELSE LET requests == Get(memory_limiter.requests, ConcKey, <<>>)
         IN {requests[i] : i \in DOMAIN requests}

(* The timestamps of the admitted checks: those answered, and those whose   *)
(* pipeline counted fewer than limit.requests entries                       *)
AdmittedTimestamps ==
    {History(ConcKey)[j].at :
        j \in {j \in DOMAIN History(ConcKey) : History(ConcKey)[j].allowed}}
    \cup {rlpc[p].now :
            p \in {p \in Procs : /\ rlpc[p].st = "executed"
                                 /\ rlpc[p].got < manager.limit.requests}}

(* C24: sliding window.  For every time t the admitted checks of a key with *)
(* timestamps in the window of length window_seconds ending at t are at     *)
(* most limit.requests, and at every moment every timestamp stored for the  *)
(* key is the timestamp of an admitted check: a denied check leaves no      *)
(* entry that another caller can observe.                                   *)
C24_SlidingWindowInvariant ==
    manager.limit.strategy = "sliding_window" =>
        /\ \A t \in 0..MaxRlTime :
              Cardinality({j \in DOMAIN History(ConcKey) :
                              /\ History(ConcKey)[j].allowed
                              /\ History(ConcKey)[j].at > t - manager.limit.window_seconds
                              /\ History(ConcKey)[j].at <= t})
                  <= manager.limit.requests
        /\ StoredTimestamps \subseteq AdmittedTimestamps

----------------------------------------------------------------------------
(* The bucket stored for a key by the backend of the manager *)
BucketIn(m, r, key) ==
    IF manager.use_redis THEN Get(r.h, key, None) ELSE Get(m.token_buckets, key, None)

(* The token count of a key after refill at time t, times window_seconds:  *)
(* a fresh key holds limit.requests tokens                                 *)
TokensAfterRefill(bucket, t) ==
    IF bucket = None THEN manager.limit.requests * manager.limit.window_seconds
    ELSE Min(manager.limit.requests * manager.limit.window_seconds,
             bucket[1].tokens + (t - bucket[1].last_refill) * manager.limit.requests)

(* A check answered by the backend changes the bucket as C25 says *)
TokenBucketStep ==
    (/\ manager.limit.strategy = "token_bucket"
     /\ rlhist' # rlhist
     /\ rlresult'.backend # "fail_open") =>
        LET key == rlresult'.key
            refilled == TokensAfterRefill(BucketIn(memory_limiter, redis, key), rltime)
            after == BucketIn(memory_limiter', redis', key)
        IN /\ after # None
           /\ 0 <= after[1].tokens
           /\ after[1].tokens <= manager.limit.requests * manager.limit.window_seconds
           /\ rlresult'.result.allowed <=> refilled >= manager.limit.window_seconds
           /\ rlresult'.result.allowed =>
                 after[1].tokens = refilled - manager.limit.window_seconds
           /\ ~rlresult'.result.allowed => after[1].tokens = refilled

(* The checks of a fresh key made at one instant and answered by the       *)
(* backend: the first limit.requests are admitted, the others denied       *)
FreshKeyBurst ==
    manager.limit.strategy = "token_bucket" =>
        \A key \in RlKeys : \A k \in DOMAIN History(key) :
            (\A j \in 1..k : /\ History(key)[j].backend # "fail_open"
                             /\ History(key)[j].at = History(key)[1].at)
                => (History(key)[k].allowed <=> k <= manager.limit.requests)

(* C25: token bucket, both backends.  The stored token count stays within  *)
(* [0, limit]; a check is admitted exactly when the count after refill     *)
(* (elapsed * limit / window added, capped at limit) is at least 1; an      *)
(* admission removes exactly one token; a denial removes none and keeps the *)
(* fraction accrued; a fresh key admits exactly limit checks made at one    *)
(* instant and denies the next.                                             *)
C25_TokenBucket == []FreshKeyBurst /\ [][TokenBucketStep]_vars

(* Limit 1 per 2 seconds on Redis: admitted at t, denied at t + 1 with half *)
(* a token accrued and kept, admitted at t + 2 from the two halves          *)
C25_Witness ==
    /\ manager.limit = RateLimit(1, 2, "token_bucket")
    /\ rlresult.made
    /\ rlresult.backend = "redis"
    /\ LET h == History(rlresult.key)
       IN /\ Len(h) = 3
          /\ \A k \in 1..3 : h[k].backend = "redis" /\ h[k].at = h[1].at + k - 1
          /\ h[1].allowed /\ ~h[2].allowed /\ h[3].allowed

----------------------------------------------------------------------------
(* The checks of a key that the backend admitted at a time in S *)
AdmittedAt(key, S) ==
    {j \in DOMAIN History(key) : /\ History(key)[j].allowed
                                 /\ History(key)[j].backend # "fail_open"
                                 /\ History(key)[j].at \in S}

(* C26: fixed window, both backends.  For every key and window index        *)
(* floor(now / window) at most limit.requests checks are admitted inside    *)
(* that window; the first check of a new window index is admitted whatever  *)
(* was made in the windows before; and at most 2 * limit.requests checks    *)
(* are admitted in any time span of length window.                          *)
C26_FixedWindow ==
    manager.limit.strategy = "fixed_window" =>
        LET L == manager.limit.requests
            W == manager.limit.window_seconds
        IN \A key \in RlKeys :
            /\ \A w \in 0..(MaxRlTime \div W) :
                  Cardinality(AdmittedAt(key, {t \in 0..MaxRlTime : t \div W = w})) <= L
            /\ \A k \in DOMAIN History(key) :
                  (\A j \in 1..(k - 1) :
                      History(key)[j].at \div W < History(key)[k].at \div W)
                    => History(key)[k].allowed
            /\ \A s \in 0..MaxRlTime :
                  Cardinality(AdmittedAt(key, s..(s + W - 1))) <= 2 * L

(* Limit 2 per window of 2 seconds on Redis: two checks admitted in the     *)
(* last second of a window and two more in the first second of the next     *)
C26_Witness ==
    /\ manager.limit = RateLimit(2, 2, "fixed_window")
    /\ rlresult.made
    /\ rlresult.backend = "redis"
    /\ LET h == History(rlresult.key)
       IN /\ Len(h) = 4
          /\ \A k \in 1..4 : h[k].backend = "redis" /\ h[k].allowed
          /\ h[1].at = 1 /\ h[2].at = 1 /\ h[3].at = 2 /\ h[4].at = 2

----------------------------------------------------------------------------
(* C27: (auth_service) after a successful rotate_refresh_token the record   *)
(* of the redeemed token has used_at set, is not active, and its stored     *)
(* replaced_by is the id of the record that the rotation created.           *)
C27_RotationChainPointer ==
    (impl = "v2" /\ last.op = "refresh" /\ last.ok) =>
        \A i \in RecordsOf(last.arg) :
            /\ tokens[i].used_at # None
            /\ ~tokens[i].is_active
            /\ tokens[i].replaced_by # None
            /\ \E j \in RecordsOf(last.out) : tokens[i].replaced_by = Some(tokens[j].id)

----------------------------------------------------------------------------
(* The step is a refresh that issued new tokens for the raw token presented *)
RefreshSucceeds(raw) ==
    \/ last'.op = "refresh" /\ last'.ok /\ last'.arg = raw
    \/ /\ last'.op = "get_current_user" /\ last'.ok
       /\ last'.via = "refresh" /\ last'.arg = raw

(* C28: a refresh issues new tokens only for a token whose session is       *)
(* active when it is presented: not for one whose session is revoked or     *)
(* past its expires_at, even when the refresh token record is itself        *)
(* unused, unrevoked and before its own expires_at.                         *)
C28_RefreshNeedsActiveSession ==
    [][\A raw \in 1..Len(tokens) :
          (RefreshSucceeds(raw) /\ tokens' # tokens) =>
              \A i \in RecordsOf(raw) :
                  get_active_session(DB, tokens[i].session_id, now) # None]_vars

----------------------------------------------------------------------------
(* The session ids of user u in a sessions table *)
SessionIdsOf(ss, u) == {ss[i].session_id : i \in {i \in DOMAIN ss : ss[i].user_id = u}}

(* C29: a successful refresh stays on the session of the redeemed record:   *)
(* every refresh token record it creates has that session_id, it creates no *)
(* session, and the set of the user's sessions is the same afterwards.      *)
C29_RefreshKeepsSession ==
    [][\A raw \in 1..Len(tokens) :
          (RefreshSucceeds(raw) /\ tokens' # tokens) =>
              \A i \in RecordsOf(raw) :
                  /\ \A j \in DOMAIN tokens' \ DOMAIN tokens :
                        tokens'[j].session_id = tokens[i].session_id
                  /\ Len(sessions') = Len(sessions)
                  /\ SessionIdsOf(sessions', tokens[i].user_id)
                        = SessionIdsOf(sessions, tokens[i].user_id)]_vars

----------------------------------------------------------------------------
(* The step revoked all sessions of user u but, possibly, session s (0 for  *)
(* none): those sessions and their refresh tokens are revoked afterwards,   *)
(* every other session and refresh token is as before                       *)
RevokedAllBut(u, s) ==
    /\ DOMAIN sessions' = DOMAIN sessions
    /\ DOMAIN tokens' = DOMAIN tokens
    /\ \A i \in DOMAIN sessions :
          IF sessions[i].user_id = u /\ sessions[i].session_id # s
          THEN /\ Revoked(sessions'[i])
               /\ \A k \in TokensOfSession(sessions[i].session_id) : Revoked(tokens'[k])
          ELSE /\ sessions'[i] = sessions[i]
               /\ \A k \in TokensOfSession(sessions[i].session_id) :
                     tokens'[k] = tokens[k]

(* The user of session sid *)
UserOfSession(sid) ==
    LET hit == {i \in DOMAIN sessions : sessions[i].session_id = sid}
    IN sessions[CHOOSE i \in hit : TRUE].user_id

(* C30: revoke_all_user_sessions(user, except_session_id = s) revokes every *)
(* session of the user other than s together with its refresh tokens, and   *)
(* leaves s, the refresh tokens of s and all sessions and refresh tokens of *)
(* other users unchanged; with no exception given it revokes every session  *)
(* of the user, as the logout with logout_all_sessions does.                *)
C30_RevokeAllExcept ==
    [][/\ last'.op = "revoke_all" => RevokedAllBut(last'.arg, last'.out)
       /\ (last'.op = "logout" /\ last'.ok /\ last'.via = "all_sessions") =>
             \A i \in DOMAIN sessions :
                 sessions[i].user_id = UserOfSession(last'.arg)
                    => /\ Revoked(sessions'[i])
                       /\ \A k \in TokensOfSession(sessions[i].session_id) :
                             Revoked(tokens'[k])]_vars

(* User 1 had two sessions and user 2 one, all with a redeemable refresh    *)
(* token, when the sessions of user 1 except one were revoked: that one and *)
(* the session of user 2 are still active, the other is revoked now         *)
C30_Witness ==
    /\ last.op = "revoke_all"
    /\ last.out # 0
    /\ \E i, j, k \in DOMAIN sessions :
          /\ sessions[i].user_id = last.arg /\ sessions[i].session_id = last.out
          /\ sessions[j].user_id = last.arg /\ sessions[j].session_id # last.out
          /\ sessions[k].user_id # last.arg
          /\ get_active_session(DB, sessions[i].session_id, now) # None
          /\ get_active_session(DB, sessions[k].session_id, now) # None
          /\ sessions[j].revoked_at = Some(now)
          /\ sessions[j].expires_at > now
          /\ \E t \in TokensOfSession(sessions[i].session_id) :
                tokens[t].is_active /\ tokens[t].revoked_at = None
          /\ \E t \in TokensOfSession(sessions[j].session_id) :
                tokens[t].revoked_at = Some(now)

----------------------------------------------------------------------------
(* The sessions of user u that create_session finds with expires_at passed  *)
(* or is_active false, and the others: the active ones                      *)
ExpiredOrInactive(u) ==
    {i \in DOMAIN sessions : /\ sessions[i].user_id = u
                             /\ (sessions[i].expires_at < now \/ ~sessions[i].is_active)}
ActiveBefore(u) ==
    {i \in DOMAIN sessions : sessions[i].user_id = u} \ ExpiredOrInactive(u)

(* The active sessions that the step leaves as they were, and those it      *)
(* revokes                                                                  *)
KeptBy(u) == {i \in ActiveBefore(u) : sessions'[i] = sessions[i]}
EvictedBy(u) == {i \in ActiveBefore(u) : Revoked(sessions'[i])}

(* C31: create_session (through login) revokes every session of the user    *)
(* whose expires_at has passed or that is inactive; of the user's active    *)
(* sessions it keeps the MAX_SESSIONS_PER_USER most recently created and    *)
(* revokes the others, so that no kept session was created earlier than an  *)
(* evicted one.                                                             *)
C31_EvictionOrder ==
    [][(last'.op = "login" /\ sessions' # sessions) =>
          LET u == last'.arg IN
          /\ \A i \in ExpiredOrInactive(u) : Revoked(sessions'[i])
          /\ KeptBy(u) \cup EvictedBy(u) = ActiveBefore(u)
          /\ Cardinality(KeptBy(u))
                = Min(Cardinality(ActiveBefore(u)), MAX_SESSIONS_PER_USER)
          /\ \A k \in KeptBy(u), e \in EvictedBy(u) :
                sessions[k].created_at >= sessions[e].created_at]_vars

(* The login before last found six active sessions and evicted the oldest:  *)
(* the first session is revoked, the five after it are active, and so is    *)
(* the one that login created                                               *)
C31_Witness ==
    /\ last.op = "login"
    /\ Len(sessions) = 7
    /\ sessions[1].revoked_at # None
    /\ sessions[1].expires_at > sessions[1].revoked_at[1]
    /\ \A i \in 2..7 : get_active_session(DB, sessions[i].session_id, now) # None

----------------------------------------------------------------------------
(* The details of the two failures of the function that gave the verdict *)
ExpiredOutcome ==
    IF verdict.by = "verify_token" THEN "Token has expired" ELSE "Access token expired"
InvalidOutcome ==
    IF verdict.by = "verify_token" THEN "Invalid token" ELSE "Invalid access token"

(* What is true of the presented token at the time of the verdict *)
WellSigned == Presented.alg = "RS256" /\ Presented.sig = Sign(PrivateKey, Presented.payload)
ExpiryPassed == Presented.payload["exp"] <= verdict.at
OfExpectedType == Presented.payload["type"] = verdict.expected
ForThisService ==
    Presented.payload["aud"] = "api" /\ Presented.payload["iss"] = "ai-trading-platform"

----------------------------------------------------------------------------
(* C33: silent refresh only on expiry.  A request to get_current_user whose *)
(* access token is invalid for another reason than expiry (bad signature,   *)
(* malformed, wrong type) is rejected, and no refresh token is redeemed or  *)
(* rotated for it: sessions and refresh tokens stay as they were.           *)
C33_SilentRefreshOnlyOnExpiry ==
    [][(last'.op = "get_current_user" /\ last'.verify = "invalid") =>
          /\ ~last'.ok
          /\ last'.via # "refresh"
          /\ tokens' = tokens
          /\ sessions' = sessions
          /\ rotations' = rotations]_vars

----------------------------------------------------------------------------
(* The limiter entries of the failed_login key of the last attempt *)
FailedLoginEntries(m) ==
    Get(m.requests,
        RateLimitKey(FailedLoginIdentifier(login'.client_ip, login'.email), "auth_login"),
        <<>>)

(* C34: in EnhancedAuthService.authenticate_user the rate limit check comes *)
(* first: an attempt that the limiter denies ends with 429, the user is not *)
(* looked up, the password is not verified, and the account's               *)
(* failed_login_attempts and locked_until are as before; an attempt whose   *)
(* password was verified had been admitted by the limiter.                  *)
C34_RateLimitFirst ==
    [][(impl = "enhanced" /\ login'.made) =>
          /\ login'.limited =>
                /\ login'.status = 429
                /\ login'.user = None
                /\ ~login'.verified
                /\ accounts' = accounts
                /\ FailedLoginEntries(memory_limiter') = FailedLoginEntries(memory_limiter)
          /\ login'.status = 429 => login'.limited
          /\ login'.verified => ~login'.limited]_vars

(* The sixth attempt inside the window came with the right password for an *)
(* account that is not locked and was turned away by the limiter           *)
C34_Witness ==
    /\ impl = "enhanced"
    /\ login.made
    /\ login.limited
    /\ login.status = 429
    /\ login.password = "Correct123!"
    /\ login.before # None
    /\ ~IsLocked(login.before[1], login.at)
    /\ accounts[login.email] = login.before[1]

----------------------------------------------------------------------------
(* C35: a refresh that presents a token whose hash matches no refresh token *)
(* record fails and changes no session and no refresh token record: nothing *)
(* is revoked, nothing is created.                                          *)
C35_UnknownTokenNoChange ==
    [][(last'.op = "refresh" /\ RecordsOf(last'.arg) = {}) =>
          /\ ~last'.ok
          /\ sessions' = sessions
          /\ tokens' = tokens
          /\ rotations' = rotations]_vars

(* An unknown token was presented while the store held a redeemable token   *)
(* of an active session, and was refused                                    *)
C35_Witness ==
    /\ last.op = "refresh"
    /\ ~last.ok
    /\ RecordsOf(last.arg) = {}
    /\ \E raw \in 1..Len(tokens) :
          /\ Redeemable(raw)
          /\ \A i \in RecordsOf(raw) :
                get_active_session(DB, tokens[i].session_id, now) # None

(* No refresh request is between its SELECT and its writes *)
NoRefreshInFlight == \A p \in Procs : pc[p].st = "idle"

(* The sessions that revoke_session has revoked *)
RevokedSessions == {sid \in 1..Len(sessions) :
                        \E i \in DOMAIN sessions :
                            sessions[i].session_id = sid /\ Revoked(sessions[i])}

(* C36: whatever the interleaving of revoke_session(s) with a concurrent    *)
(* refresh on a token of session s, once both have finished no redeemable   *)
(* refresh token belongs to s: a rotation that read its token before the    *)
(* revocation leaves no fresh active successor on the revoked session.      *)
C36_RevocationBeatsRotation ==
    NoRefreshInFlight =>
        \A sid \in RevokedSessions, raw \in 1..Len(tokens) :
            Redeemable(raw) => \A i \in RecordsOf(raw) : tokens[i].session_id # sid

(* C37: whatever keys extra_claims contains, the token of                   *)
(* create_token(user_id, T, extra_claims = E) carries the type claim T and  *)
(* the sub claim str(user_id), so verify_token accepts it only under the    *)
(* expected type T.                                                         *)
C37_TypeTagNotForgeable ==
    (jwt.minted /\ jwt.by = "create_token") =>
        /\ jwt.token.payload["type"] = jwt.type
        /\ jwt.token.payload["sub"] = str(jwt.user_id)
        /\ verdict.outcome = "ok" => verdict.expected = jwt.type

(* The last attempt found the account with a lock that had run out: no    *)
(* login has succeeded since the account was locked                        *)
LockExpiredBefore ==
    /\ login.made
    /\ login.before # None
    /\ login.before[1].locked_until # None
    /\ login.before[1].locked_until[1] <= login.at

(* The account after the last attempt, and the lockout that attempt starts *)
AccountAfter == accounts[login.email]
LockedAgain == Some(login.at + LOCKOUT_DURATION_MINUTES * 60)

(* The counter of an account whose lock is set holds the value that locked *)
(* it                                                                      *)
CounterKept ==
    \A e \in DOMAIN accounts :
        accounts[e].locked_until # None =>
            accounts[e].failed_login_attempts >= LOGIN_ATTEMPTS_LIMIT

(* What an attempt that reached the password check does to an account      *)
(* whose lock had run out                                                  *)
AfterExpiredLock ==
    IF login.password = "Correct123!"
    THEN /\ login.status = 200
         /\ login.user = Some(login.email)
         /\ AccountAfter.failed_login_attempts = 0
         /\ AccountAfter.locked_until = None
    ELSE /\ login.status = 401
         /\ login.user = None
         /\ AccountAfter.failed_login_attempts =
                login.before[1].failed_login_attempts + 1
         /\ AccountAfter.locked_until = LockedAgain

(* C38 as stated: the expiry of a lock does not reset the counter.  After   *)
(* locked_until has passed with no successful login, failed_login_attempts *)
(* holds its pre-lock value, so one further wrong password sets            *)
(* locked_until again, while a correct password authenticates and resets   *)
(* failed_login_attempts to 0 and locked_until to unset.                   *)
C38_RelockAfterExpiry ==
    /\ CounterKept
    /\ LockExpiredBefore => AfterExpiredLock

(* C38 amended: the same of every attempt that the login rate limit        *)
(* admits; an attempt it rejects gets HTTP 429 and leaves the account as   *)
(* it was, the expired lock and the counter included.                      *)
C38_RelockWhenAdmitted ==
    /\ CounterKept
    /\ LockExpiredBefore =>
          IF login.limited
          THEN /\ login.status = 429
               /\ login.user = None
               /\ AccountAfter = login.before[1]
          ELSE AfterExpiredLock

(* A wrong password after the lock had run out locked the account again *)
C38_Witness ==
    /\ LockExpiredBefore
    /\ login.password = "Wrong123!"
    /\ ~login.limited
    /\ AccountAfter.locked_until = LockedAgain
    /\ AccountAfter.failed_login_attempts > LOGIN_ATTEMPTS_LIMIT

----------------------------------------------------------------------------
(* The limiter keys of an attempt, and what the store holds for a key *)
LoginKey(l) == RateLimitKey(LoginIdentifier(l.client_ip, l.email), "auth_login")
FailedLoginKey(l) == RateLimitKey(FailedLoginIdentifier(l.client_ip, l.email), "auth_login")
EntriesOf(m, key) == Get(m.requests, key, <<>>)

(* The calls of a key that count against the budget at time t: those not   *)
(* older than the window                                                   *)
CountedAt(m, key, t) ==
    SelectSeq(EntriesOf(m, key), LAMBDA x : x >= t - AuthLoginLimit.window_seconds)

(* The store as it would be had no failed_login check ever been made *)
NoFailedLogin(m, l) ==
    [m EXCEPT !.requests = [k \in DOMAIN m.requests \ {FailedLoginKey(l)} |-> m.requests[k]]]

(* C39: every call of EnhancedAuthService.authenticate_user, successful or  *)
(* not, takes one unit of the sliding window budget of login:{ip}:{email}   *)
(* (5 per 300 s), and a call that finds the budget used up is rejected with *)
(* HTTP 429, also when the five calls before it succeeded and the password  *)
(* is correct; the failed_login:{ip}:{email} check made on failures changes *)
(* no outcome.                                                             *)
C39_EveryCallCounts ==
    [][(impl = "enhanced" /\ (login' # login \/ memory_limiter' # memory_limiter)) =>
          LET l == login'
              used == CountedAt(memory_limiter, LoginKey(l), l.at)
              alone == authenticate_user_enhanced(accounts, manager,
                           NoFailedLogin(memory_limiter, l), redis,
                           l.client_ip, l.email, l.password, l.at)
          IN /\ l.limited <=> Len(used) >= AuthLoginLimit.requests
             /\ l.limited => l.status = 429
             /\ EntriesOf(memory_limiter', LoginKey(l)) =
                    IF l.limited THEN used ELSE Append(used, l.at)
             /\ alone.status = l.status
             /\ alone.user = l.user
             /\ alone.accounts = accounts'
             /\ EntriesOf(alone.m, LoginKey(l)) = EntriesOf(memory_limiter', LoginKey(l))]_vars

(* The sixth call inside the window was rejected although no login of this *)
(* caller had failed and the password was correct                          *)
C39_Witness ==
    /\ impl = "enhanced"
    /\ login.made
    /\ login.status = 429
    /\ login.password = "Correct123!"
    /\ login.email \in Registered
    /\ FailedLoginKey(login) \notin DOMAIN memory_limiter.requests
    /\ Len(CountedAt(memory_limiter, LoginKey(login), login.at)) = AuthLoginLimit.requests
    /\ accounts[login.email].failed_login_attempts = 0

----------------------------------------------------------------------------
(* The user whose request the last step served: the user who logged in,    *)
(* the owner of the presented refresh token, the owner of the session that *)
(* was logged out; 0 when the request named no record                      *)
ActingUser(l) ==
    CASE l.op = "login" -> l.arg
      [] l.op = "refresh" ->
            IF RecordsOf(l.arg) = {} THEN 0
            ELSE tokens[CHOOSE i \in RecordsOf(l.arg) : TRUE].user_id
      [] l.op = "logout" -> UserOfSession(l.arg)
      [] OTHER -> 0

(* The session rows and the refresh token rows of the users other than u *)
SessionsOfOthers(ss, u) == {ss[i] : i \in {i \in DOMAIN ss : ss[i].user_id # u}}
TokensOfOthers(ts, u) == {ts[i] : i \in {i \in DOMAIN ts : ts[i].user_id # u}}

(* C40: create_session for user U touches the records of U only: its       *)
(* cleanup revokes sessions and refresh tokens of U, and no login, refresh  *)
(* or logout of U changes a session or a refresh token of another user.     *)
C40_OtherUsersUntouched ==
    [][last'.op \in {"login", "refresh", "logout"} =>
          /\ SessionsOfOthers(sessions', ActingUser(last'))
                = SessionsOfOthers(sessions, ActingUser(last'))
          /\ TokensOfOthers(tokens', ActingUser(last'))
                = TokensOfOthers(tokens, ActingUser(last'))]_vars

(* A login of one user whose cleanup revoked an expired session of that    *)
(* user and its refresh token, while an expired session of the other user   *)
(* and its refresh token are still as they were                             *)
C40_Witness ==
    /\ last.op = "login"
    /\ \E i, j \in DOMAIN sessions :
          /\ sessions[i].user_id = last.arg
          /\ sessions[i].expires_at < now
          /\ sessions[i].revoked_at = Some(now)
          /\ \E k \in TokensOfSession(sessions[i].session_id) :
                tokens[k].revoked_at = Some(now)
          /\ sessions[j].user_id # last.arg
          /\ sessions[j].expires_at < now
          /\ sessions[j].is_active /\ sessions[j].revoked_at = None
          /\ \E k \in TokensOfSession(sessions[j].session_id) :
                tokens[k].is_active /\ tokens[k].revoked_at = None

====
